---- MODULE Spec2Model ----
(***************************************************************************)
(* Automaton-backed predictors of cam/sgnmt/predictors/automata.py:        *)
(* FstPredictor (deterministic lattice), NondeterministicFstPredictor and  *)
(* RtnPredictor, driven by one decoder through the predictor contract.     *)
(*                                                                         *)
(* Python values are encoded as follows.  Scores and weights are integers. *)
(* None as a node is NoneNode, None as a number is PyNone, no automaton is *)
(* NoneFst.  A dict is a sequence of <<key, value>> pairs in insertion     *)
(* order.  A list lives in `heap` and is referred to by its address, so    *)
(* that sharing between the predictor and a snapshot is visible.           *)
(* An exception that leaves an operation is recorded in out.exc.           *)
(* Comparisons follow Python 3: ordering None against a number raises      *)
(* TypeError, max() of an empty sequence raises ValueError.                *)
(***************************************************************************)
EXTENDS Integers, Sequences, FiniteSets, TLC

VARIABLES variant, conf, disk, phase, cur_fst, cur_node, bos_score,
          cur_nodes, cur_history, sub_fsts, distances, heap, snap, out,
          nconsumed

vars == <<variant, conf, disk, phase, cur_fst, cur_node, bos_score,
          cur_nodes, cur_history, sub_fsts, distances, heap, snap, out,
          nconsumed>>

----------------------------------------------------------------------------
(* Symbol ids and library values                                           *)

EPS_ID == 0
GO_ID == 1
EOS_ID == 2
UNK_ID == 3
NEG_INF == -1000000

NoneNode == -2
NoStateId == -1

PyNone == [none |-> TRUE, v |-> 0]
Num(x) == [none |-> FALSE, v |-> x]

\* Python truthiness of a number-or-None: None and 0 are false.
Truthy(r) == ~r.none /\ r.v # 0

\* utils.w2f: the float value of an arc weight.
W2F(w) == w

\* self.distances before initialize_heuristic has set it: the attribute does
\* not exist.  d is the list of distances; `of` notes the automaton it was
\* computed on.
NoDistances == [set |-> FALSE, d |-> <<>>, of |-> <<>>]

\* The outcome, in the place of an exception's name, of a call that never
\* returns.
NoReturn == "no return"

----------------------------------------------------------------------------
(* Bounds                                                                  *)

\* The arcs of a lattice, and the consume calls the decoder makes in a session.
MaxArcs == 4
MaxConsumes == 2

----------------------------------------------------------------------------
(* Sequences and insertion-ordered dicts                                   *)

Range(s) == {s[i] : i \in DOMAIN s}

SetMax(S) == CHOOSE x \in S : \A y \in S : y <= x
SetMin(S) == CHOOSE x \in S : \A y \in S : x <= y

DKeys(d) == {d[i][1] : i \in DOMAIN d}
DHas(d, k) == \E i \in DOMAIN d : d[i][1] = k
DIdx(d, k) == CHOOSE i \in DOMAIN d : d[i][1] = k
DGet(d, k, dflt) == IF DHas(d, k) THEN d[DIdx(d, k)][2] ELSE dflt
DPut(d, k, v) ==
    IF DHas(d, k) THEN [d EXCEPT ![DIdx(d, k)] = <<k, v>>]
    ELSE Append(d, <<k, v>>)
DValues(d) == [i \in DOMAIN d |-> d[i][2]]

\* A dict as a mathematical map, the value two dicts are compared by (==).
DMap(d) == [k \in DKeys(d) |-> DGet(d, k, 0)]

----------------------------------------------------------------------------
(* Weighted automata                                                       *)

Arc(s, n, l, w) == [src |-> s, nextstate |-> n, olabel |-> l, weight |-> w]

NoneFst == [isNone |-> TRUE, start |-> NoStateId, arcs |-> <<>>]
MkFst(st, as) == [isNone |-> FALSE, start |-> st, arcs |-> as]
EmptyFst == MkFst(NoStateId, <<>>)

\* fst.arcs(state): the arcs leaving `state`, in the automaton's arc order.
Arcs(f, state) == SelectSeq(f.arcs, LAMBDA a : a.src = state)

\* The arcs the lattices of one sentence are made of.
ArcPool ==
    << Arc(0, 2, UNK_ID, 1),
       Arc(0, 1, GO_ID, 0),
       Arc(0, 1, GO_ID, 2),
       Arc(0, 0, GO_ID, 1),
       Arc(0, 1, EPS_ID, 1),
       Arc(1, 2, UNK_ID, 1),
       Arc(1, 2, 5, 2),
       Arc(1, 1, 5, 1),
       Arc(1, 2, 5, 1),
       Arc(1, 2, EOS_ID, 1),
       Arc(1, 2, EPS_ID, 1),
       Arc(2, 2, 5, 1) >>

RECURSIVE PickArcs(_, _)
PickArcs(S, i) ==
    IF i > Len(ArcPool) THEN <<>>
    ELSE IF i \in S THEN <<ArcPool[i]>> \o PickArcs(S, i + 1)
    ELSE PickArcs(S, i + 1)

\* Every lattice of at most MaxArcs pool arcs, in pool order, start state 0;
\* the automaton without states; and the missing file.
Lattices ==
    {MkFst(0, PickArcs(S, 1)) :
        S \in {T \in SUBSET (1 .. Len(ArcPool)) : Cardinality(T) <= MaxArcs}}
    \cup {EmptyFst}

\* The symbols the decoder consumes.
Symbols == {GO_ID, EOS_ID, UNK_ID, 5}

\* utils.load_fst: the automaton read from the file, None when the file is
\* missing or unreadable.
LoadFst(file) == IF file.readable THEN file.fst ELSE NoneFst

WeightFactor(to_log) == IF to_log THEN -1 ELSE 1

\* Predictor.finalize_posterior with normalize_scores off: with use_weights
\* off every score is replaced by 0.
FinalizePosterior(scores, use_weights) ==
    IF use_weights THEN scores
    ELSE [i \in DOMAIN scores |-> <<scores[i][1], 0>>]

\* The outcome of a call: the exception that left it ("" when none), the
\* returned number-or-None and the returned distribution.
Ret(e, n, d) == [exc |-> e, num |-> n, dist |-> d]

----------------------------------------------------------------------------
(* FstPredictor                                                            *)

\* {arc.olabel: weight_factor*w2f(arc.weight) for arc in arcs}
RECURSIVE FstArcScores(_, _, _)
FstArcScores(arcs, wf, scores) ==
    IF arcs = <<>> THEN scores
    ELSE FstArcScores(Tail(arcs), wf,
                      DPut(scores, Head(arcs).olabel, wf * W2F(Head(arcs).weight)))

\* predict_next with the begin-marker score folded into the end marker
\* whatever skip_bos_weight says.
FstPredictNextAlwaysBos(f, cf, node, bos) ==
    IF node = NoneNode THEN Ret("TypeError", PyNone, <<>>)
    ELSE IF node < 0 THEN Ret("", PyNone, <<>>)
    ELSE IF f.isNone THEN Ret("AttributeError", PyNone, <<>>)
    ELSE LET scores == FstArcScores(Arcs(f, node), WeightFactor(cf.to_log), <<>>)
         IN  IF DHas(scores, EOS_ID) /\ bos.none
             THEN Ret("AttributeError", PyNone, <<>>)
             ELSE Ret("", PyNone,
                      FinalizePosterior(
                          IF DHas(scores, EOS_ID)
                          THEN DPut(scores, EOS_ID, DGet(scores, EOS_ID, 0) + bos.v)
                          ELSE scores,
                          cf.use_weights))

FstPredictNext(f, cf, node, bos) ==
    IF node = NoneNode THEN Ret("TypeError", PyNone, <<>>)
    ELSE IF node < 0 THEN Ret("", PyNone, <<>>)
    ELSE IF f.isNone THEN Ret("AttributeError", PyNone, <<>>)
    ELSE LET scores == FstArcScores(Arcs(f, node), WeightFactor(cf.to_log), <<>>)
             addBos == DHas(scores, EOS_ID) /\ ~cf.skip_bos_weight
         IN  IF addBos /\ bos.none THEN Ret("AttributeError", PyNone, <<>>)
             ELSE LET s2 == IF addBos
                            THEN DPut(scores, EOS_ID,
                                      DGet(scores, EOS_ID, 0) + bos.v)
                            ELSE scores
                  IN  Ret("", PyNone, FinalizePosterior(s2, cf.use_weights))

\* The loop of consume taking the first arc labelled `word` or unknown.
RECURSIVE FstConsumeLoopFirstOfBoth(_, _, _, _)
FstConsumeLoopFirstOfBoth(arcs, wf, word, unk) ==
    IF arcs = <<>> THEN [node |-> NoneNode, ret |-> PyNone]
    ELSE IF Head(arcs).olabel = word
    THEN [node |-> Head(arcs).nextstate, ret |-> Num(wf * W2F(Head(arcs).weight))]
    ELSE IF Head(arcs).olabel = UNK_ID
    THEN [node |-> Head(arcs).nextstate, ret |-> PyNone]
    ELSE FstConsumeLoopFirstOfBoth(Tail(arcs), wf, word, unk)

\* The loop of consume over the arcs of from_state: the first arc labelled
\* `word` is taken at once; otherwise the last unknown-labelled arc seen.
RECURSIVE FstConsumeLoop(_, _, _, _)
FstConsumeLoop(arcs, wf, word, unk) ==
    IF arcs = <<>>
    THEN [node |-> IF unk = NoneNode THEN NoneNode ELSE unk, ret |-> PyNone]
    ELSE IF Head(arcs).olabel = word
    THEN [node |-> Head(arcs).nextstate, ret |-> Num(wf * W2F(Head(arcs).weight))]
    ELSE IF Head(arcs).olabel = UNK_ID
    THEN FstConsumeLoop(Tail(arcs), wf, word, Head(arcs).nextstate)
    ELSE FstConsumeLoop(Tail(arcs), wf, word, unk)

\* consume(word): [exc, node, ret], the new cur_node and the returned weight.
FstConsume(f, to_log, node, word) ==
    IF node = NoneNode THEN [exc |-> "TypeError", node |-> node, ret |-> PyNone]
    ELSE IF node < 0 THEN [exc |-> "", node |-> node, ret |-> PyNone]
    ELSE IF f.isNone THEN [exc |-> "AttributeError", node |-> NoneNode, ret |-> PyNone]
    ELSE LET r == FstConsumeLoop(Arcs(f, node), WeightFactor(to_log), word, NoneNode)
         IN  [exc |-> "", node |-> r.node, ret |-> r.ret]

\* initialize: [exc, fst, node, bos]; bos keeps its old value when the
\* begin-marker consume raises.
FstInitialize(file, to_log, oldBos) ==
    LET f == LoadFst(file)
        n0 == IF f.isNone THEN NoneNode ELSE f.start
        c == FstConsume(f, to_log, n0, GO_ID)
    IN  [exc |-> c.exc, fst |-> f, node |-> c.node,
         bos |-> IF c.exc # "" THEN oldBos
                 ELSE IF Truthy(c.ret) THEN c.ret ELSE Num(0)]

----------------------------------------------------------------------------
(* NondeterministicFstPredictor                                            *)

\* The later score replacing the earlier one.
ScoreMax2Last(to_log, a, b) == b

\* The worst of the scores in place of the best.
ScoreMaxSeqWorst(to_log, vals) ==
    IF to_log THEN SetMin(Range(vals)) ELSE SetMax(Range(vals))

\* score_max_func: max if to_log else min, of two numbers and of a sequence.
ScoreMax2(to_log, a, b) ==
    IF to_log THEN (IF a >= b THEN a ELSE b) ELSE (IF a <= b THEN a ELSE b)
ScoreMaxSeq(to_log, vals) ==
    IF to_log THEN SetMax(Range(vals)) ELSE SetMin(Range(vals))

\* The inner loop of predict_next over the arcs of one frontier member.
RECURSIVE NfstPredictArcs(_, _, _, _)
NfstPredictArcs(arcs, weight, to_log, scores) ==
    IF arcs = <<>> THEN scores
    ELSE LET arc == Head(arcs)
             score == weight + WeightFactor(to_log) * W2F(arc.weight)
         IN  NfstPredictArcs(Tail(arcs), weight, to_log,
                IF arc.olabel = EPS_ID THEN scores
                ELSE IF DHas(scores, arc.olabel)
                THEN DPut(scores, arc.olabel,
                          ScoreMax2(to_log, DGet(scores, arc.olabel, 0), score))
                ELSE DPut(scores, arc.olabel, score))

RECURSIVE NfstPredictNodes(_, _, _, _)
NfstPredictNodes(nodes, f, to_log, scores) ==
    IF nodes = <<>> THEN scores
    ELSE NfstPredictNodes(Tail(nodes), f, to_log,
            NfstPredictArcs(Arcs(f, Head(nodes)[2]), Head(nodes)[1], to_log, scores))

\* predict_next on the frontier `nodes`, a list of <<weight, node>>.
NfstPredictNext(f, cf, nodes) ==
    IF nodes # <<>> /\ f.isNone THEN Ret("AttributeError", PyNone, <<>>)
    ELSE Ret("", PyNone,
             FinalizePosterior(NfstPredictNodes(nodes, f, cf.to_log, <<>>),
                               cf.use_weights))

\* The arc loop following an epsilon arc only into a state not visited yet.
RECURSIVE FollowEpsArcsFirstVisit(_, _, _, _, _, _)
FollowEpsArcsFirstVisit(arcs, score, wf, visited, next_open, has_noneps) ==
    IF arcs = <<>>
    THEN [visited |-> visited, next_open |-> next_open, has_noneps |-> has_noneps]
    ELSE LET arc == Head(arcs)
             next_score == score + wf * W2F(arc.weight)
             better == arc.olabel = EPS_ID /\ ~DHas(visited, arc.nextstate)
         IN  FollowEpsArcsFirstVisit(Tail(arcs), score, wf,
                IF better THEN DPut(visited, arc.nextstate, next_score) ELSE visited,
                IF better THEN DPut(next_open, arc.nextstate, next_score) ELSE next_open,
                has_noneps \/ arc.olabel # EPS_ID)

\* The test with <= in place of <: a state is opened again by a score that
\* equals the one it has.
ImprovesOrEqual(visited, next_node, next_score) ==
    DGet(visited, next_node, NEG_INF) <= next_score

\* `if visited.get(next_node, utils.NEG_INF) < next_score`
Improves(visited, next_node, next_score) ==
    DGet(visited, next_node, NEG_INF) < next_score

\* The arc loop that follows no epsilon arc of a node with a word arc.
RECURSIVE FollowEpsArcsHalting(_, _, _, _, _, _)
FollowEpsArcsHalting(arcs, score, wf, visited, next_open, has_noneps) ==
    IF arcs = <<>>
    THEN [visited |-> visited, next_open |-> next_open, has_noneps |-> has_noneps]
    ELSE LET arc == Head(arcs)
             next_score == score + wf * W2F(arc.weight)
             halts == has_noneps
                      \/ \E i \in DOMAIN arcs : arcs[i].olabel # EPS_ID
             better == arc.olabel = EPS_ID /\ ~halts
                       /\ DGet(visited, arc.nextstate, NEG_INF) < next_score
         IN  FollowEpsArcsHalting(Tail(arcs), score, wf,
                IF better THEN DPut(visited, arc.nextstate, next_score) ELSE visited,
                IF better THEN DPut(next_open, arc.nextstate, next_score) ELSE next_open,
                has_noneps \/ arc.olabel # EPS_ID)

\* The arc loop of _follow_eps for one open node: [visited, next_open,
\* has_noneps].
RECURSIVE FollowEpsArcs(_, _, _, _, _, _)
FollowEpsArcs(arcs, score, wf, visited, next_open, has_noneps) ==
    IF arcs = <<>>
    THEN [visited |-> visited, next_open |-> next_open, has_noneps |-> has_noneps]
    ELSE LET arc == Head(arcs)
             next_score == score + wf * W2F(arc.weight)
             better == arc.olabel = EPS_ID
                       /\ Improves(visited, arc.nextstate, next_score)
         IN  FollowEpsArcs(Tail(arcs), score, wf,
                IF better THEN DPut(visited, arc.nextstate, next_score) ELSE visited,
                IF better THEN DPut(next_open, arc.nextstate, next_score) ELSE next_open,
                has_noneps \/ arc.olabel # EPS_ID)

\* The pass recording every open node, whatever arcs it has.
RECURSIVE FollowEpsLevelAll(_, _, _, _, _, _)
FollowEpsLevelAll(open, f, wf, visited, next_open, d) ==
    IF open = <<>> THEN [visited |-> visited, next_open |-> next_open, d |-> d]
    ELSE LET node == Head(open)[1]
             score == Head(open)[2]
             r == FollowEpsArcs(Arcs(f, node), score, wf, visited, next_open, FALSE)
         IN  FollowEpsLevelAll(Tail(open), f, wf, r.visited, r.next_open,
                               DPut(d, node, score))

\* One pass of the while loop of _follow_eps over open_nodes.
RECURSIVE FollowEpsLevel(_, _, _, _, _, _)
FollowEpsLevel(open, f, wf, visited, next_open, d) ==
    IF open = <<>> THEN [visited |-> visited, next_open |-> next_open, d |-> d]
    ELSE LET node == Head(open)[1]
             score == Head(open)[2]
             r == FollowEpsArcs(Arcs(f, node), score, wf, visited, next_open, FALSE)
         IN  FollowEpsLevel(Tail(open), f, wf, r.visited, r.next_open,
                            IF r.has_noneps THEN DPut(d, node, score) ELSE d)

RECURSIVE FollowEpsLoop(_, _, _, _, _)
FollowEpsLoop(open, f, wf, visited, d) ==
    IF open = <<>> THEN d
    ELSE LET r == FollowEpsLevel(open, f, wf, visited, <<>>, d)
         IN  FollowEpsLoop(r.next_open, f, wf, r.visited, r.d)

\* The closure reporting only the states it newly reached, not its roots.
FollowEpsNoRoots(f, to_log, roots) ==
    LET d == FollowEpsLoop(roots, f, WeightFactor(to_log), roots, <<>>)
        reached == SelectSeq(d, LAMBDA p : ~DHas(roots, p[1]))
    IN  [i \in DOMAIN reached |-> <<reached[i][2], reached[i][1]>>]

\* _follow_eps(roots): roots is a dict node -> score; the result is the list
\* [(weight, node) for node, weight in d.items()].
FollowEps(f, to_log, roots) ==
    LET d == FollowEpsLoop(roots, f, WeightFactor(to_log), roots, <<>>)
    IN  [i \in DOMAIN d |-> <<d[i][2], d[i][1]>>]

\* The collection loop of consume over the arcs of one frontier member.
RECURSIVE NfstCollectArcs(_, _, _, _, _)
NfstCollectArcs(arcs, weight, wf, word, d_unconsumed) ==
    IF arcs = <<>> THEN d_unconsumed
    ELSE LET arc == Head(arcs)
             next_score == weight + wf * W2F(arc.weight)
         IN  NfstCollectArcs(Tail(arcs), weight, wf, word,
                IF arc.olabel = word
                   /\ DGet(d_unconsumed, arc.nextstate, NEG_INF) < next_score
                THEN DPut(d_unconsumed, arc.nextstate, next_score)
                ELSE d_unconsumed)

RECURSIVE NfstCollect(_, _, _, _, _)
NfstCollect(nodes, f, wf, word, d_unconsumed) ==
    IF nodes = <<>> THEN d_unconsumed
    ELSE NfstCollect(Tail(nodes), f, wf, word,
            NfstCollectArcs(Arcs(f, Head(nodes)[2]), Head(nodes)[1], wf, word,
                            d_unconsumed))

\* The subtraction left out for the begin marker when skip_bos_weight is set.
NfstSubtractsUnlessSkipped(skip_bos_weight, word) == ~(word = GO_ID /\ skip_bos_weight)

\* Whether consume subtracts the best score of d_unconsumed.
NfstSubtracts(skip_bos_weight, word) == word # GO_ID \/ skip_bos_weight

\* The dict handed to _follow_eps by consume.
NfstRoots(d_unconsumed, consumed_score) ==
    [i \in DOMAIN d_unconsumed |->
        <<d_unconsumed[i][1], d_unconsumed[i][2] - consumed_score>>]

\* consume(word) on the frontier `nodes`: [exc, nodes, consumed, roots]; the
\* frontier is left as it was when max() of the empty d_unconsumed raises.
NfstConsume(f, cf, nodes, word) ==
    LET d_unconsumed == NfstCollect(nodes, f, WeightFactor(cf.to_log), word, <<>>)
        subtracts == NfstSubtracts(cf.skip_bos_weight, word)
    IN  IF nodes # <<>> /\ f.isNone
        THEN [exc |-> "AttributeError", nodes |-> nodes, consumed |-> 0,
              roots |-> <<>>]
        ELSE IF subtracts /\ d_unconsumed = <<>>
        THEN [exc |-> "ValueError", nodes |-> nodes, consumed |-> 0, roots |-> <<>>]
        ELSE LET consumed_score == IF subtracts
                                   THEN ScoreMaxSeq(cf.to_log, DValues(d_unconsumed))
                                   ELSE 0
                 roots == NfstRoots(d_unconsumed, consumed_score)
             IN  [exc |-> "", nodes |-> FollowEps(f, cf.to_log, roots),
                  consumed |-> consumed_score, roots |-> roots]

\* initialize: [exc, fst, nodes].
NfstInitialize(file, cf) ==
    LET f == LoadFst(file)
        n0 == IF f.isNone THEN <<>>
              ELSE FollowEps(f, cf.to_log, << <<f.start, 0>> >>)
        c == NfstConsume(f, cf, n0, GO_ID)
    IN  [exc |-> c.exc, fst |-> f, nodes |-> c.nodes]

----------------------------------------------------------------------------
(* The heap of Python lists                                                *)

\* Addresses are opaque: after every operation the live lists are renamed so
\* that the predictor's list is at 1 and a snapshot that is another object is
\* at 2.
NullAddr == 0
EmptyHeap == [a \in {} |-> <<>>]
FreshAddr == 3

Compact(h, c, s) ==
    IF s = NullAddr \/ s = c
    THEN [heap |-> [a \in {1} |-> h[c]], cur |-> 1,
          snap |-> IF s = NullAddr THEN NullAddr ELSE 1]
    ELSE [heap |-> [a \in {1, 2} |-> IF a = 1 THEN h[c] ELSE h[s]], cur |-> 1,
          snap |-> 2]

\* x = <new list>: the list is a fresh object.
AssignNew(h, val) ==
    [ref |-> FreshAddr,
     heap |-> [a \in (DOMAIN h) \cup {FreshAddr} |->
                  IF a = FreshAddr THEN val ELSE h[a]]]

\* The decoder's snapshot: the value get_state returned (a node, or the
\* address of a list), with what the decoder observed when it took it: the
\* list's value and the outcome of predict_next; and whether consume was
\* called since.
NoSnap == [has |-> FALSE, node |-> NoStateId, ref |-> NullAddr, val |-> <<>>,
           d |-> Ret("", PyNone, <<>>), moved |-> FALSE]
Moved(sn) == IF sn.has THEN [sn EXCEPT !.moved = TRUE] ELSE sn
SnapRef(sn) == IF sn.has THEN sn.ref ELSE NullAddr

\* What the decoder saw of the last call: the operation, its argument (for
\* predict_next: 1 when the call directly follows set_state, else 0), the
\* predictor's traversal state before the call, and the outcome.
Out(op, arg, pre, r) == [op |-> op, arg |-> arg, pre |-> pre, exc |-> r.exc,
                         num |-> r.num, dist |-> r.dist]
AfterRestore(o) == IF o.op = "set_state" THEN 1 ELSE 0

SameOutcome(r1, r2) == r1.exc = r2.exc /\ DMap(r1.dist) = DMap(r2.dist)

Booleans == {TRUE, FALSE}
\* Weights on, normalize off; the RTN switches are not used by the lattices.
LatticeConfs ==
    [to_log : Booleans, skip_bos_weight : Booleans, use_weights : {TRUE},
     rmeps : {FALSE}, minimize_rtns : {FALSE}]
MissingFile == [readable |-> FALSE, fst |-> NoneFst]
LatticeFiles == {[readable |-> TRUE, fst |-> f] : f \in Lattices} \cup {MissingFile}

----------------------------------------------------------------------------
(* The decoder driving an FstPredictor                                     *)

InitFst ==
    /\ sub_fsts = <<>>
    /\ variant = "fst"
    /\ distances = NoDistances
    /\ conf \in LatticeConfs
    /\ disk \in LatticeFiles
    /\ phase = "new"
    /\ cur_fst = NoneFst
    /\ cur_node = NoStateId
    /\ bos_score = PyNone
    /\ cur_nodes = NullAddr
    /\ cur_history = NullAddr
    /\ heap = EmptyHeap
    /\ snap = NoSnap
    /\ out = Out("new", 0, 0, Ret("", PyNone, <<>>))
    /\ nconsumed = 0

FstInitializeAct ==
    /\ UNCHANGED sub_fsts
    /\ variant = "fst" /\ phase = "new"
    /\ LET r == FstInitialize(disk, conf.to_log, bos_score)
       IN  /\ cur_fst' = r.fst
           /\ cur_node' = r.node
           /\ bos_score' = r.bos
           /\ out' = Out("initialize", 0, cur_node, Ret(r.exc, PyNone, <<>>))
    /\ phase' = "ready"
    /\ UNCHANGED <<distances, variant, conf, disk, cur_nodes, cur_history, heap, snap,
                   nconsumed>>

FstPredictNextAct ==
    /\ UNCHANGED sub_fsts
    /\ variant = "fst" /\ phase = "ready"
    /\ out' = Out("predict_next", AfterRestore(out), cur_node,
                FstPredictNext(cur_fst, conf, cur_node, bos_score))
    /\ UNCHANGED <<distances, variant, conf, disk, phase, cur_fst, cur_node, bos_score,
                   cur_nodes, cur_history, heap, snap, nconsumed>>

FstConsumeAct ==
    /\ UNCHANGED sub_fsts
    /\ variant = "fst" /\ phase = "ready" /\ nconsumed < MaxConsumes
    /\ \E word \in Symbols :
         LET r == FstConsume(cur_fst, conf.to_log, cur_node, word)
         IN  /\ cur_node' = r.node
             /\ out' = Out("consume", word, cur_node, Ret(r.exc, r.ret, <<>>))
    /\ snap' = Moved(snap)
    /\ nconsumed' = nconsumed + 1
    /\ UNCHANGED <<distances, variant, conf, disk, phase, cur_fst, bos_score, cur_nodes,
                   cur_history, heap>>

\* The decoder takes s = get_state() and d = predict_next() at this point.
FstGetStateAct ==
    /\ UNCHANGED sub_fsts
    /\ variant = "fst" /\ phase = "ready"
    /\ snap' = [has |-> TRUE, node |-> cur_node, ref |-> NullAddr, val |-> <<>>,
                d |-> FstPredictNext(cur_fst, conf, cur_node, bos_score),
                moved |-> FALSE]
    /\ out' = Out("get_state", 0, cur_node, Ret("", PyNone, <<>>))
    /\ UNCHANGED <<distances, variant, conf, disk, phase, cur_fst, cur_node, bos_score,
                   cur_nodes, cur_history, heap, nconsumed>>

FstSetStateAct ==
    /\ UNCHANGED sub_fsts
    /\ variant = "fst" /\ phase = "ready" /\ snap.has
    /\ cur_node' = snap.node
    /\ out' = Out("set_state", 0, cur_node, Ret("", PyNone, <<>>))
    /\ UNCHANGED <<distances, variant, conf, disk, phase, cur_fst, bos_score, cur_nodes,
                   cur_history, heap, snap, nconsumed>>

NextFst ==
    \/ FstInitializeAct
    \/ FstPredictNextAct
    \/ FstConsumeAct
    \/ FstGetStateAct
    \/ FstSetStateAct

SpecFst == InitFst /\ [][NextFst]_vars

----------------------------------------------------------------------------
(* The decoder driving a NondeterministicFstPredictor                      *)

\* Lattices with states; the automaton without states is left to InitFst.
NfstFiles == LatticeFiles \ {[readable |-> TRUE, fst |-> EmptyFst]}

InitNfst ==
    /\ sub_fsts = <<>>
    /\ variant = "nfst"
    /\ distances = NoDistances
    /\ conf \in LatticeConfs
    /\ disk \in NfstFiles
    /\ phase = "new"
    /\ cur_fst = NoneFst
    /\ cur_node = NoStateId
    /\ bos_score = PyNone
    /\ cur_nodes = 1
    /\ cur_history = NullAddr
    /\ heap = [a \in {1} |-> <<>>]
    /\ snap = NoSnap
    /\ out = Out("new", 0, 0, Ret("", PyNone, <<>>))
    /\ nconsumed = 0

\* The predictor's list refilled in place instead of replaced.
NfstAssignNodesInPlace(h, cur, val) == [ref |-> cur, heap |-> [h EXCEPT ![cur] = val]]

\* self.cur_nodes = <the list built by initialize or consume>
NfstAssignNodes(h, cur, val) == AssignNew(h, val)

NfstInitializeAct ==
    /\ UNCHANGED sub_fsts
    /\ variant = "nfst" /\ phase = "new"
    /\ LET r == NfstInitialize(disk, conf)
           a == NfstAssignNodes(heap, cur_nodes, r.nodes)
           z == Compact(a.heap, a.ref, SnapRef(snap))
       IN  /\ cur_fst' = r.fst
           /\ cur_nodes' = z.cur
           /\ heap' = z.heap
           /\ snap' = [snap EXCEPT !.ref = z.snap]
           /\ out' = Out("initialize", 0, heap[cur_nodes], Ret(r.exc, PyNone, <<>>))
    /\ phase' = "ready"
    /\ UNCHANGED <<distances, variant, conf, disk, cur_node, bos_score, cur_history,
                   nconsumed>>

\* predict_next taking the members off the frontier list as it scores them.
NfstPredictNextActDraining ==
    /\ UNCHANGED sub_fsts
    /\ variant = "nfst" /\ phase = "ready"
    /\ out' = Out("predict_next", AfterRestore(out), heap[cur_nodes],
                NfstPredictNext(cur_fst, conf, heap[cur_nodes]))
    /\ heap' = [heap EXCEPT ![cur_nodes] = <<>>]
    /\ UNCHANGED <<distances, variant, conf, disk, phase, cur_fst, cur_node, bos_score,
                   cur_nodes, cur_history, snap, nconsumed>>

NfstPredictNextAct ==
    /\ UNCHANGED sub_fsts
    /\ variant = "nfst" /\ phase = "ready"
    /\ out' = Out("predict_next", AfterRestore(out), heap[cur_nodes],
                NfstPredictNext(cur_fst, conf, heap[cur_nodes]))
    /\ UNCHANGED <<distances, variant, conf, disk, phase, cur_fst, cur_node, bos_score,
                   cur_nodes, cur_history, heap, snap, nconsumed>>

\* out.dist records the dict handed to _follow_eps.
NfstConsumeAct ==
    /\ UNCHANGED sub_fsts
    /\ variant = "nfst" /\ phase = "ready" /\ nconsumed < MaxConsumes
    /\ \E word \in Symbols :
         LET r == NfstConsume(cur_fst, conf, heap[cur_nodes], word)
             a == NfstAssignNodes(heap, cur_nodes, r.nodes)
             z == Compact(a.heap, a.ref, SnapRef(snap))
         IN  /\ out' = Out("consume", word, heap[cur_nodes],
                        Ret(r.exc, Num(r.consumed), r.roots))
             /\ IF r.exc # ""
                THEN /\ UNCHANGED <<cur_nodes, heap>>
                     /\ snap' = Moved(snap)
                ELSE /\ cur_nodes' = z.cur
                     /\ heap' = z.heap
                     /\ snap' = [Moved(snap) EXCEPT !.ref = z.snap]
    /\ nconsumed' = nconsumed + 1
    /\ UNCHANGED <<distances, variant, conf, disk, phase, cur_fst, cur_node, bos_score,
                   cur_history>>

\* The decoder takes s = get_state() and d = predict_next() at this point.
NfstGetStateAct ==
    /\ UNCHANGED sub_fsts
    /\ variant = "nfst" /\ phase = "ready"
    /\ LET z == Compact(heap, cur_nodes, cur_nodes)
       IN  /\ heap' = z.heap
           /\ cur_nodes' = z.cur
           /\ snap' = [has |-> TRUE, node |-> NoStateId, ref |-> z.snap,
                       val |-> heap[cur_nodes],
                       d |-> NfstPredictNext(cur_fst, conf, heap[cur_nodes]),
                       moved |-> FALSE]
    /\ out' = Out("get_state", 0, heap[cur_nodes], Ret("", PyNone, <<>>))
    /\ UNCHANGED <<distances, variant, conf, disk, phase, cur_fst, cur_node, bos_score,
                   cur_history, nconsumed>>

NfstSetStateAct ==
    /\ UNCHANGED sub_fsts
    /\ variant = "nfst" /\ phase = "ready" /\ snap.has
    /\ LET z == Compact(heap, snap.ref, snap.ref)
       IN  /\ heap' = z.heap
           /\ cur_nodes' = z.cur
           /\ snap' = [snap EXCEPT !.ref = z.snap]
    /\ out' = Out("set_state", 0, heap[cur_nodes], Ret("", PyNone, <<>>))
    /\ UNCHANGED <<distances, variant, conf, disk, phase, cur_fst, cur_node, bos_score,
                   cur_history, nconsumed>>

NextNfst ==
    \/ NfstInitializeAct
    \/ NfstPredictNextAct
    \/ NfstConsumeAct
    \/ NfstGetStateAct
    \/ NfstSetStateAct

SpecNfst == InitNfst /\ [][NextNfst]_vars

----------------------------------------------------------------------------
(* RtnPredictor: files and initialize                                      *)

\* An automaton with final states: finals is a dict state -> final weight.
MkRtn(st, as, fs) == [isNone |-> FALSE, start |-> st, arcs |-> as, finals |-> fs]
NoneRtn == [isNone |-> TRUE, start |-> NoStateId, arcs |-> <<>>, finals |-> <<>>]

\* A file of the RTN directory: whether os.access grants reading, whether
\* Fst.read succeeds, its name and the automaton it holds.  The name of a file
\* under <base>/<index>/ is the sequence of the digits before ".fst".
RtnFile(nm, acc, ok, f) == [name |-> nm, readable |-> acc, valid |-> ok, fst |-> f]

\* A line of ntmap after strip().split(None, 1): n fields, the first the key
\* and the second the id.
NtLine(k, v) == [n |-> 2, key |-> k, val |-> v]

\* start_id of __init__: ntmap['S'], and '1' when open, the dict construction
\* (a line without two fields) or the lookup raises.
NtmapStartId(nm) ==
    IF ~nm.exists THEN <<1>>
    ELSE IF \E i \in DOMAIN nm.lines : nm.lines[i].n # 2 THEN <<1>>
    ELSE IF ~\E i \in DOMAIN nm.lines : nm.lines[i].key = "S" THEN <<1>>
    ELSE nm.lines[SetMax({i \in DOMAIN nm.lines : nm.lines[i].key = "S"})].val

\* start_id.zfill(3)
Zfill3(d) == [i \in 1 .. (IF Len(d) >= 3 THEN 0 ELSE 3 - Len(d)) |-> 0] \o d

\* self.root_fst_prefix = "1%s000" % start_id.zfill(3)
RootFstPrefix(nm) == <<1>> \o Zfill3(NtmapStartId(nm)) \o <<0, 0, 0>>

StartsWith(name, prefix) ==
    Len(name) >= Len(prefix) /\ SubSeq(name, 1, Len(prefix)) = prefix

\* glob.glob('<base>/<index>/<prefix>*.fst'): the files of the directory whose
\* name starts with the prefix, in the order the directory lists them.
Glob(dir, prefix) == SelectSeq(dir, LAMBDA file : StartsWith(file.name, prefix))

\* String order of two names: at the first difference the smaller digit comes
\* first, and a name comes before its extensions.
LexLess(x, y) ==
    \/ \E k \in 1 .. (IF Len(x) <= Len(y) THEN Len(x) ELSE Len(y)) :
          x[k] < y[k] /\ \A j \in 1 .. k - 1 : x[j] = y[j]
    \/ (Len(x) < Len(y) /\ SubSeq(y, 1, Len(x)) = x)

\* The candidates left in the order glob lists them.
SortedByNameAsListed(files) == files

\* sorted(candidates)
SortedByName(files) ==
    [k \in DOMAIN files |->
        files[CHOOSE i \in DOMAIN files :
                 1 + Cardinality({j \in DOMAIN files :
                                     LexLess(files[j].name, files[i].name)
                                     \/ (files[j].name = files[i].name /\ j < i)})
                   = k]]

\* initialize up to its finally clause: the root automaton (None when none is
\* found or the read raises) and whether the begin marker is consumed (not on
\* the early return).  dk.direct is <base>/<index>.fst, dk.dir the files of
\* <base>/<index>/ and dk.ntmap the file <base>/ntmap read by __init__.
RtnInitialize(dk) ==
    LET cands == Glob(dk.dir, RootFstPrefix(dk.ntmap))
    IN  IF ~dk.direct.readable /\ cands = <<>>
        THEN [fst |-> NoneRtn, go |-> FALSE]
        ELSE LET candidates == IF Len(cands) > 1 THEN SortedByName(cands)
                               ELSE cands
                 file == IF dk.direct.readable THEN dk.direct
                         ELSE candidates[Len(candidates)]
             IN  [fst |-> IF file.valid THEN file.fst ELSE NoneRtn, go |-> TRUE]

\* self.cur_history.append(word): the list object is changed in place.
RtnAppend(h, cur, word) == [ref |-> cur, heap |-> [h EXCEPT ![cur] = Append(@, word)]]

----------------------------------------------------------------------------
(* RtnPredictor: the scan of expand_rtn                                    *)

\* F applied to the values of its arguments, each evaluated once.
Bind(v, F(_)) == CHOOSE y \in {F(x) : x \in {v}} : TRUE
Bind2(v, w, F(_, _)) == CHOOSE y \in {F(x1, x2) : x1 \in {v}, x2 \in {w}} : TRUE
Bind4(v, w, u, t, F(_, _, _, _)) ==
    CHOOSE y \in {F(x1, x2, x3, x4) : x1 \in {v}, x2 \in {w}, x3 \in {u}, x4 \in {t}} : TRUE

NtBase == 1000000000
ReplaceBase == 2000000000

\* is_nt_label: the decimal form has 10 digits and starts with '1'.
IsNtLabel(label) == label >= NtBase /\ label < ReplaceBase

\* The positions in `arcs` of the arcs leaving `node`, in arc order.
ArcIdx(arcs, node) ==
    SelectSeq([i \in 1 .. Len(arcs) |-> i], LAMBDA i : arcs[i].src = node)

\* fst.arcsort(sort_type="olabel"): the arcs of every state ordered by output
\* label, arcs of equal label keeping their order.
ArcBefore(arcs, j, i) ==
    \/ arcs[j].src < arcs[i].src
    \/ /\ arcs[j].src = arcs[i].src
       /\ \/ arcs[j].olabel < arcs[i].olabel
          \/ (arcs[j].olabel = arcs[i].olabel /\ j < i)
ArcRank(arcs, i) == 1 + Cardinality({j \in DOMAIN arcs : ArcBefore(arcs, j, i)})
ArcSort(arcs) ==
    [k \in DOMAIN arcs |-> arcs[CHOOSE i \in DOMAIN arcs : ArcRank(arcs, i) = k]]

\* get_sub_fst that reads the file at every call and keeps nothing.
GetSubFstUncached(cache, subs, fst_id, reads) ==
    LET file == DGet(subs, fst_id, RtnFile(0, FALSE, FALSE, NoneRtn))
    IN  [fst |-> IF file.readable /\ file.valid THEN file.fst ELSE NoneRtn,
         cache |-> cache, reads |-> reads + 1]

\* get_sub_fst(fst_id): [fst, cache, reads]; the cached automaton, or the one
\* read from <root>/<index>/<fst_id>.fst and then cached, or None when the
\* read raises.  subs is a dict nonterminal id -> file.
GetSubFst(cache, subs, fst_id, reads) ==
    IF DHas(cache, fst_id)
    THEN [fst |-> DGet(cache, fst_id, NoneRtn), cache |-> cache, reads |-> reads]
    ELSE LET file == DGet(subs, fst_id, RtnFile(0, FALSE, FALSE, NoneRtn))
         IN  IF file.readable /\ file.valid
             THEN [fst |-> file.fst, cache |-> DPut(cache, fst_id, file.fst),
                   reads |-> reads + 1]
             ELSE [fst |-> NoneRtn, cache |-> cache, reads |-> reads + 1]

\* The score of the label overwritten by every path instead of kept when better.
AddToCurPosteriorLast(post, label, weight) == DPut(post, label, weight)

\* _add_to_cur_posterior(node, label, weight)
AddToCurPosterior(post, label, weight) ==
    LET old == DGet(post, label, NEG_INF)
    IN  DPut(post, label, IF old >= weight THEN old ELSE weight)

\* add_to_label_fst_map_recursive.  T carries what the recursion changes:
\* label_fst_map, cur_posterior, the sub_fsts cache, the number of file reads,
\* and the visited_nodes dict of the current call (a set here); T.arcs are the
\* arcs of cur_fst, T.wf and T.subs are weight_factor and the files.  The arc
\* of `for arc in self.cur_fst.arcs(root_node)` is the iterator's copy of the
\* automaton's arc: `arc.ilabel = replace_label; arc.olabel = replace_label`
\* writes to the copy, which is not read again, and T.arcs stays as it is.
\* T.expanded lists, in call order, <<root_node, len(history)>> of every call
\* that got past the visited_nodes test and went through the node's arcs.
RECURSIVE ScanNode(_, _, _, _)
RECURSIVE ScanArcs(_, _, _, _)
ScanNode(T0, root_node, acc_weight, history) ==
    Bind(T0, LAMBDA T :
        IF root_node \in T.visited THEN T
        ELSE ScanArcs([T EXCEPT !.visited = @ \cup {root_node},
                                !.expanded = Append(@, <<root_node, Len(history)>>)],
                      ArcIdx(T.arcs, root_node), acc_weight, history))
ScanArcs(T0, idxs0, acc_weight0, history0) ==
    Bind4(T0, idxs0, acc_weight0, history0, LAMBDA T, idxs, acc_weight, history :
        IF idxs = <<>> THEN T
        ELSE LET i == Head(idxs)
                 arc == T.arcs[i]
                 arc_acc_weight == acc_weight + T.wf * W2F(arc.weight)
             IN  IF arc.olabel = EPS_ID
                 THEN ScanArcs(ScanNode(T, arc.nextstate, arc_acc_weight, history),
                               Tail(idxs), acc_weight, history)
                 ELSE IF history = <<>>
                 THEN IF IsNtLabel(arc.olabel)
                      THEN Bind(GetSubFst(T.cache, T.subs, arc.olabel, T.reads),
                                LAMBDA g :
                                  LET replace_label == Len(T.map) + ReplaceBase
                                  IN  ScanArcs([T EXCEPT
                                                  !.map = DPut(@, replace_label, g.fst),
                                                  !.cache = g.cache,
                                                  !.reads = g.reads],
                                               Tail(idxs), acc_weight, history))
                      ELSE ScanArcs([T EXCEPT !.post = AddToCurPosterior(@, arc.olabel,
                                                                         arc_acc_weight)],
                                    Tail(idxs), acc_weight, history)
                 ELSE IF arc.olabel = history[1]
                 THEN Bind(ScanNode([T EXCEPT !.visited = {}], arc.nextstate,
                                    arc_acc_weight, Tail(history)),
                           LAMBDA T2 :
                             ScanArcs([T2 EXCEPT !.visited = T.visited], Tail(idxs),
                                      acc_weight, history))
                 ELSE IF arc.olabel > history[1] THEN T
                 ELSE ScanArcs(T, Tail(idxs), acc_weight, history))

----------------------------------------------------------------------------
(* fst.replace(pairs, epsilon_on_replace=True)                             *)

NumStates(f) ==
    1 + SetMax({f.start} \cup {a.src : a \in Range(f.arcs)}
               \cup {a.nextstate : a \in Range(f.arcs)} \cup DKeys(f.finals))

\* `order` with the states of `states` it does not hold yet, in their order.
AppendNew(order, states) ==
    order \o SelectSeq(states,
                       LAMBDA st : st \notin Range(order))

\* The sequence without the repetitions of its elements.
Distinct(sq) ==
    LET firsts == SelectSeq([i \in DOMAIN sq |-> i],
                            LAMBDA i : \A j \in 1 .. i - 1 : sq[j] # sq[i])
    IN  [k \in DOMAIN firsts |-> sq[firsts[k]]]

\* The states in the order a traversal from the start state meets them: the
\* state ids of the automaton the library builds.
RECURSIVE Discover(_, _, _)
Discover(arcs, order0, i) ==
    Bind(order0, LAMBDA order :
        IF i > Len(order) THEN order
        ELSE LET idxs == ArcIdx(arcs, order[i])
             IN  Discover(arcs,
                          AppendNew(order,
                                    Distinct([j \in DOMAIN idxs |->
                                                 arcs[idxs[j]].nextstate])),
                          i + 1))

PosOf(order, st) == CHOOSE i \in DOMAIN order : order[i] = st

\* The arcs of the states of `order`, state by state, under the new ids.
ArcsInOrder(arcs, order) ==
    LET ranked == SelectSeq(arcs, LAMBDA a : a.src \in Range(order))
        moved == [j \in DOMAIN ranked |->
                     [ranked[j] EXCEPT !.src = PosOf(order, @) - 1,
                                       !.nextstate = PosOf(order, @) - 1]]
    IN  Bind(moved, LAMBDA m :
            [k \in DOMAIN m |->
                m[CHOOSE i \in DOMAIN m :
                     1 + Cardinality({j \in DOMAIN m :
                                         m[j].src < m[i].src
                                         \/ (m[j].src = m[i].src /\ j < i)}) = k]])

\* The automaton over the states reachable from `start`, renumbered.
Renumber(start, arcs0, finals) ==
    Bind(arcs0, LAMBDA arcs : Bind(Discover(arcs, <<start>>, 1), LAMBDA order :
        LET kept == SelectSeq(finals, LAMBDA p : p[1] \in Range(order))
        IN  MkRtn(0, ArcsInOrder(arcs, order),
                  [i \in DOMAIN kept |-> <<PosOf(order, kept[i][1]) - 1, kept[i][2]>>])))

\* The copy of sub-automaton g spliced in for the arc `call` of the root, with
\* its states moved up by `off`: per state, the epsilon arc from a final state
\* back to the destination of `call`, carrying the final weight, then the
\* state's own arcs.
RECURSIVE SubCopy(_, _, _, _)
SubCopy(g, call, off, st) ==
    IF st >= NumStates(g) THEN <<>>
    ELSE LET idxs == ArcIdx(g.arcs, st)
             back == IF DHas(g.finals, st)
                     THEN <<Arc(st + off, call.nextstate, EPS_ID, DGet(g.finals, st, 0))>>
                     ELSE <<>>
         IN  back
             \o [j \in DOMAIN idxs |->
                    [g.arcs[idxs[j]] EXCEPT !.src = @ + off, !.nextstate = @ + off]]
             \o SubCopy(g, call, off, st + 1)

\* The arcs of the root with every arc labelled by a key of label_fst_map
\* turned into an epsilon arc into a fresh copy of the mapped automaton (the
\* arc is dropped when that automaton has no start state); the copies follow.
RECURSIVE Splice(_, _, _, _)
Splice(arcs, map, i, off) ==
    IF i > Len(arcs) THEN [arcs |-> <<>>, copies |-> <<>>]
    ELSE LET a == arcs[i]
             g == DGet(map, a.olabel, NoneRtn)
         IN  IF DHas(map, a.olabel) /\ g.start = NoStateId
             THEN Splice(arcs, map, i + 1, off)
             ELSE IF DHas(map, a.olabel)
             THEN Bind(Splice(arcs, map, i + 1, off + NumStates(g)), LAMBDA rest :
                      [arcs |-> <<Arc(a.src, off + g.start, EPS_ID, a.weight)>>
                                \o rest.arcs,
                       copies |-> SubCopy(g, a, off, 0) \o rest.copies])
             ELSE Bind(Splice(arcs, map, i + 1, off), LAMBDA rest :
                      [arcs |-> <<a>> \o rest.arcs, copies |-> rest.copies])

\* replace: raises when a mapped automaton is None.
Replace(root, map) ==
    IF \E i \in DOMAIN map : map[i][2].isNone
    THEN [exc |-> "TypeError", fst |-> root]
    ELSE Bind(Splice(root.arcs, map, 1, NumStates(root)), LAMBDA sp :
            [exc |-> "", fst |-> Renumber(root.start, sp.arcs \o sp.copies, root.finals)])

----------------------------------------------------------------------------
(* fst.rmepsilon(): epsilon removal over the tropical semiring, then trim   *)

Infinity == 0 - NEG_INF
Min2(a, b) == IF a <= b THEN a ELSE b

\* Shortest distances from s along epsilon arcs only.
RECURSIVE EpsRelax(_, _, _)
EpsRelax(arcs, n, d0) ==
    Bind(d0, LAMBDA d :
        Bind([t \in 0 .. n - 1 |->
                 SetMin({d[t]} \cup
                        {d[a.src] + a.weight :
                            a \in {b \in Range(arcs) : b.olabel = EPS_ID
                                                       /\ b.nextstate = t
                                                       /\ d[b.src] < Infinity}})],
             LAMBDA d2 : IF d2 = d THEN d ELSE EpsRelax(arcs, n, d2)))
EpsDist(arcs, n, s) ==
    EpsRelax(arcs, n, [t \in 0 .. n - 1 |-> IF t = s THEN 0 ELSE Infinity])

\* An arc joins the arcs collected for a state: arcs of equal label and
\* destination are merged, keeping the smaller weight.
MergeArc(acc, a) ==
    IF \E i \in DOMAIN acc : acc[i].olabel = a.olabel /\ acc[i].nextstate = a.nextstate
    THEN LET i == CHOOSE j \in DOMAIN acc :
                     acc[j].olabel = a.olabel /\ acc[j].nextstate = a.nextstate
         IN  [acc EXCEPT ![i].weight = Min2(@, a.weight)]
    ELSE Append(acc, a)

RECURSIVE MergeArcs(_, _)
MergeArcs(acc0, as0) ==
    Bind2(acc0, as0, LAMBDA acc, as :
        IF as = <<>> THEN acc ELSE MergeArcs(MergeArc(acc, Head(as)), Tail(as)))

\* The non-epsilon arcs of the epsilon closure of s, re-rooted at s, met by a
\* depth-first walk (the last state pushed is expanded first).
RECURSIVE RmExpand(_, _, _, _, _, _)
RmExpand(arcs, d, s, stack0, visited0, acc0) ==
    Bind(acc0, LAMBDA acc : Bind2(stack0, visited0, LAMBDA stack, visited :
        IF stack = <<>> THEN acc
        ELSE LET st == stack[Len(stack)]
                 rest == SubSeq(stack, 1, Len(stack) - 1)
                 idxs == ArcIdx(arcs, st)
                 outs == [j \in DOMAIN idxs |-> arcs[idxs[j]]]
                 eps == SelectSeq(outs, LAMBDA a : a.olabel = EPS_ID
                                                    /\ a.nextstate \notin visited
                                                    /\ a.nextstate # st)
                 real == SelectSeq(outs, LAMBDA a : a.olabel # EPS_ID)
             IN  IF st \in visited THEN RmExpand(arcs, d, s, rest, visited, acc)
                 ELSE RmExpand(arcs, d, s,
                               rest \o [j \in DOMAIN eps |-> eps[j].nextstate],
                               visited \cup {st},
                               MergeArcs(acc,
                                   [j \in DOMAIN real |->
                                       [real[j] EXCEPT !.src = s,
                                                       !.weight = d[st] + @]]))))

Reverse(sq) == [i \in DOMAIN sq |-> sq[Len(sq) + 1 - i]]

\* The arcs of state s after the removal, and its final weight if it has one.
RmEpsState(arcs, finals, n, s) ==
    Bind(EpsDist(arcs, n, s), LAMBDA d :
        LET ws == {d[t] + DGet(finals, t, 0) :
                      t \in {u \in DKeys(finals) : d[u] < Infinity}}
        IN  [arcs |-> Reverse(RmExpand(arcs, d, s, <<s>>, {}, <<>>)),
             finals |-> IF ws = {} THEN <<>> ELSE << <<s, SetMin(ws)>> >>])

RECURSIVE RmEpsStates(_, _, _, _)
RmEpsStates(arcs, finals, n, s) ==
    IF s >= n THEN [arcs |-> <<>>, finals |-> <<>>]
    ELSE Bind2(RmEpsState(arcs, finals, n, s), RmEpsStates(arcs, finals, n, s + 1),
               LAMBDA one, rest : [arcs |-> one.arcs \o rest.arcs,
                                   finals |-> one.finals \o rest.finals])

\* The states from which a final state is reached.
RECURSIVE CoReach(_, _)
CoReach(arcs, S0) ==
    Bind(S0, LAMBDA S :
        Bind(S \cup {a.src : a \in {b \in Range(arcs) : b.nextstate \in S}},
             LAMBDA S2 : IF S2 = S THEN S ELSE CoReach(arcs, S2)))

\* Connect: the states on a path from the start to a final state are kept, in
\* their order; the automaton without states when there are none.
Connect(f0) ==
    Bind(f0, LAMBDA f :
        Bind(Range(Discover(f.arcs, <<f.start>>, 1))
                 \cap CoReach(f.arcs, DKeys(f.finals)),
             LAMBDA keep :
                LET NewId(st) == Cardinality({u \in keep : u < st})
                    as == SelectSeq(f.arcs, LAMBDA a : a.src \in keep
                                                       /\ a.nextstate \in keep)
                    fs == SelectSeq(f.finals, LAMBDA p : p[1] \in keep)
                IN  IF f.start \notin keep THEN MkRtn(NoStateId, <<>>, <<>>)
                    ELSE MkRtn(NewId(f.start),
                               [i \in DOMAIN as |->
                                   [as[i] EXCEPT !.src = NewId(@),
                                                 !.nextstate = NewId(@)]],
                               [i \in DOMAIN fs |-> <<NewId(fs[i][1]), fs[i][2]>>])))

RmEpsilon(f0) ==
    Bind(f0, LAMBDA f :
        IF f.start = NoStateId THEN f
        ELSE Bind(RmEpsStates(f.arcs, f.finals, NumStates(f), 0), LAMBDA r :
                Connect(MkRtn(f.start, r.arcs, r.finals))))

----------------------------------------------------------------------------
(* RtnPredictor: expand_rtn and predict_next                               *)

\* `if label_fst_map:` the scan collected a nonterminal arc, so the automaton
\* is replaced and `updated` set for another round.
Updated(label_fst_map) == label_fst_map # <<>>

\* One round of the while loop of expand_rtn: [exc, fst, cache, post, reads,
\* updated, nmap, scans]; nmap is len(label_fst_map) and scans lists
\* T.expanded of the scan.  The round sorts the arcs and scans from the start
\* state; the scan of an automaton without states raises in fst.arcs.
ExpandPass(f0, cache, post, reads, subs, wf, history) ==
    Bind(f0, LAMBDA f :
        IF f.start = NoStateId
        THEN [exc |-> "FstIndexError", fst |-> f, cache |-> cache, post |-> post,
              reads |-> reads, updated |-> FALSE, nmap |-> 0, scans |-> <<>>]
        ELSE Bind(ScanNode([arcs |-> ArcSort(f.arcs), map |-> <<>>, post |-> post,
                            cache |-> cache, reads |-> reads, visited |-> {},
                            wf |-> wf, subs |-> subs, expanded |-> <<>>],
                           f.start, 0, history),
                  LAMBDA S :
                    IF ~Updated(S.map)
                    THEN [exc |-> "", fst |-> [f EXCEPT !.arcs = S.arcs],
                          cache |-> S.cache, post |-> S.post, reads |-> S.reads,
                          updated |-> FALSE, nmap |-> Len(S.map),
                          scans |-> <<S.expanded>>]
                    ELSE Bind(Replace([f EXCEPT !.arcs = S.arcs], S.map), LAMBDA R :
                            [exc |-> R.exc,
                             fst |-> IF R.exc # "" THEN [f EXCEPT !.arcs = S.arcs]
                                     ELSE R.fst,
                             cache |-> S.cache, post |-> S.post, reads |-> S.reads,
                             updated |-> R.exc = "", nmap |-> Len(S.map),
                             scans |-> <<S.expanded>>])))

\* The while loop of expand_rtn(self._add_to_cur_posterior): [exc, fst, cache,
\* post, reads, passes, scans]; passes counts the scans that filled
\* label_fst_map and scans lists T.expanded of every scan of the call.  A
\* round that sets `updated` and ends with the automaton, the cache and the
\* posterior it began with is followed by the same round again, without end:
\* the outcome is NoReturn, with what the rounds before the repetition did.
RECURSIVE ExpandLoop(_, _, _, _, _, _, _)
ExpandLoop(f0, cache, post, reads, subs, wf, history) ==
    Bind(ExpandPass(f0, cache, post, reads, subs, wf, history), LAMBDA p :
        IF ~p.updated
        THEN [exc |-> p.exc, fst |-> p.fst, cache |-> p.cache, post |-> p.post,
              reads |-> p.reads, passes |-> IF p.nmap > 0 THEN 1 ELSE 0,
              scans |-> p.scans]
        ELSE IF p.fst = f0 /\ p.cache = cache /\ p.post = post
        THEN [exc |-> NoReturn, fst |-> p.fst, cache |-> p.cache, post |-> p.post,
              reads |-> p.reads, passes |-> 1, scans |-> p.scans]
        ELSE Bind(ExpandLoop(p.fst, p.cache, p.post, p.reads, subs, wf, history),
                  LAMBDA e : [e EXCEPT !.passes = @ + 1,
                                       !.scans = p.scans \o @]))

\* The end of expand_rtn: rmepsilon when rmeps or minimize_rtns is set, then
\* `tmp = fst.determinize(self.cur_fst.determinize)` when minimize_rtns is
\* set: the argument is the automaton's attribute `determinize`, which an
\* automaton of the library does not have (determinize is a function of the
\* module), so reading it raises AttributeError.
ExpandRtn(f, cache, post, subs, cf, history) ==
    Bind(ExpandLoop(f, cache, post, 0, subs, WeightFactor(cf.to_log), history),
         LAMBDA e :
            IF e.exc # "" THEN e
            ELSE [e EXCEPT !.fst = IF cf.rmeps \/ cf.minimize_rtns
                                   THEN RmEpsilon(e.fst) ELSE e.fst,
                           !.exc = IF cf.minimize_rtns THEN "AttributeError" ELSE ""])

\* predict_next: [exc, num, dist, fst, cache, passes, scans]; num is the
\* number of files get_sub_fst read.
RtnPredictNext(f, cache, cf, subs, history) ==
    IF f.isNone
    THEN [exc |-> "", num |-> Num(0), dist |-> <<>>, fst |-> f, cache |-> cache,
          passes |-> 0, scans |-> <<>>]
    ELSE Bind(ExpandRtn(f, cache, <<>>, subs, cf, history), LAMBDA e :
            [exc |-> e.exc, num |-> Num(e.reads),
             dist |-> IF e.exc = "" THEN FinalizePosterior(e.post, cf.use_weights)
                      ELSE <<>>,
             fst |-> e.fst, cache |-> e.cache, passes |-> e.passes,
             scans |-> e.scans])

----------------------------------------------------------------------------
(* The decoder driving an RtnPredictor                                     *)

NtLabel == NtBase + 1

\* Root automata: up to MaxArcs arcs of the pool, taken in pool order; the
\* states 2 and 3 are final.
RtnArcPool ==
    << Arc(0, 1, GO_ID, 0),
       Arc(0, 1, 5, 1),
       Arc(1, 2, 5, 3),
       Arc(1, 2, NtLabel, 1),
       Arc(1, 2, EPS_ID, 1),
       Arc(2, 3, EOS_ID, 1) >>

RtnFinals == << <<2, 0>>, <<3, 1>> >>

RECURSIVE PickRtnArcs(_, _)
PickRtnArcs(S, i) ==
    IF i > Len(RtnArcPool) THEN <<>>
    ELSE IF i \in S THEN <<RtnArcPool[i]>> \o PickRtnArcs(S, i + 1)
    ELSE PickRtnArcs(S, i + 1)

RtnRoots ==
    {MkRtn(0, PickRtnArcs(S, 1), RtnFinals) :
        S \in {T \in SUBSET (1 .. Len(RtnArcPool)) : Cardinality(T) <= MaxArcs}}

\* The automaton of the nonterminal.
SubRtn == MkRtn(0, <<Arc(0, 1, EOS_ID, 2), Arc(0, 1, 5, 1)>>, << <<1, 4>> >>)

SubFiles == {RtnFile(NtLabel, TRUE, TRUE, SubRtn), RtnFile(NtLabel, FALSE, FALSE, NoneRtn)}

NoFile == RtnFile(0, FALSE, FALSE, NoneRtn)

HasNt(f) == \E i \in DOMAIN f.arcs : IsNtLabel(f.arcs[i].olabel)

\* The ntmap files: missing; without an entry S; with a line that has no
\* second field; with S given twice (the last line counts); with an id of
\* more than three digits.
NoNtmap == [exists |-> FALSE, lines |-> <<>>]
Ntmaps ==
    {NoNtmap,
     [exists |-> TRUE, lines |-> <<NtLine("X", <<7>>)>>],
     [exists |-> TRUE, lines |-> <<NtLine("S", <<2>>), [n |-> 1, key |-> "V", val |-> <<>>]>>],
     [exists |-> TRUE, lines |-> <<NtLine("S", <<3>>), NtLine("X", <<7>>), NtLine("S", <<2>>)>>],
     [exists |-> TRUE, lines |-> <<NtLine("S", <<1, 2, 3, 4>>)>>]}

\* A root candidate: its automaton predicts the word 5 with weight k and
\* calls the nonterminal.
CandRtn(k) ==
    MkRtn(0, <<Arc(0, 1, GO_ID, 0), Arc(1, 2, 5, k), Arc(1, 2, NtLabel, 1)>>,
          RtnFinals)
CandFile(nm, ok, k) == RtnFile(nm, TRUE, ok, IF ok THEN CandRtn(k) ELSE NoneRtn)

\* The listings of <base>/<index>/: empty; candidates for several prefixes,
\* not listed in string order; the last candidate in string order unparsable;
\* one candidate.
RtnDirs ==
    {<<>>,
     << CandFile(<<1, 0, 0, 1, 0, 0, 0, 3>>, TRUE, 2),
        CandFile(<<1, 0, 0, 1, 0, 0, 0, 1, 2>>, TRUE, 1),
        CandFile(<<1, 0, 0, 2, 0, 0, 0, 9>>, TRUE, 3),
        CandFile(<<1, 0, 0, 2, 0, 0, 0>>, TRUE, 4),
        CandFile(<<1, 1, 2, 3, 4, 0, 0, 0, 5>>, TRUE, 5) >>,
     << CandFile(<<1, 0, 0, 1, 0, 0, 0, 3>>, FALSE, 0),
        CandFile(<<1, 0, 0, 1, 0, 0, 0, 1>>, TRUE, 1) >>,
     << CandFile(<<1, 0, 0, 1, 0, 0, 0, 7>>, TRUE, 6) >>}

\* A root that calls the nonterminal three times: twice from the state behind
\* the begin marker and once more behind the first call.
RepeatRtn ==
    MkRtn(0, <<Arc(0, 1, GO_ID, 0), Arc(1, 2, NtLabel, 1), Arc(1, 2, NtLabel, 2),
               Arc(2, 3, NtLabel, 0)>>,
          RtnFinals)

\* A root without nonterminals in which two arcs carry the same word from one
\* state into one state, with different weights.
ParallelRtn ==
    MkRtn(0, <<Arc(0, 1, GO_ID, 0), Arc(1, 2, 5, 3), Arc(1, 2, 5, 1),
               Arc(2, 3, EOS_ID, 1)>>,
          RtnFinals)

\* A root without nonterminals with an arc into a state that is not final and
\* has no arcs: no path through that arc is accepted.
DeadEndRtn ==
    MkRtn(0, <<Arc(0, 1, GO_ID, 0), Arc(1, 2, 5, 1), Arc(2, 3, EOS_ID, 1),
               Arc(2, 4, 5, 2)>>,
          RtnFinals)

\* The directory of one sentence: the root file is there (and the file of the
\* nonterminal is there or, for a root that calls it, missing); or the root
\* file is missing or unparsable, with every ntmap and listing; or the root is
\* one of the automata named above.
RtnDisks ==
    {[direct |-> RtnFile(1, TRUE, TRUE, p[1]), ntmap |-> NoNtmap, dir |-> <<>>,
      subs |-> << <<NtLabel, p[2]>> >>] :
        p \in {q \in RtnRoots \X SubFiles : q[2].valid \/ HasNt(q[1])}}
    \cup {[direct |-> d, ntmap |-> nm, dir |-> dir,
           subs |-> << <<NtLabel, RtnFile(NtLabel, TRUE, TRUE, SubRtn)>> >>] :
            d \in {NoFile, RtnFile(1, TRUE, FALSE, NoneRtn)},
            nm \in Ntmaps, dir \in RtnDirs}
    \cup {[direct |-> RtnFile(1, TRUE, TRUE, CandRtn(7)), ntmap |-> nm, dir |-> dir,
           subs |-> << <<NtLabel, RtnFile(NtLabel, TRUE, TRUE, SubRtn)>> >>] :
            nm \in {NoNtmap}, dir \in RtnDirs \ {<<>>}}
    \cup {[direct |-> RtnFile(1, TRUE, TRUE, RepeatRtn), ntmap |-> NoNtmap,
           dir |-> <<>>, subs |-> << <<NtLabel, sf>> >>] : sf \in SubFiles}
    \cup {[direct |-> RtnFile(1, TRUE, TRUE, root), ntmap |-> NoNtmap, dir |-> <<>>,
           subs |-> << <<NtLabel, RtnFile(NtLabel, TRUE, TRUE, SubRtn)>> >>] :
            root \in {ParallelRtn, DeadEndRtn}}

\* Weights on, normalize off; minimize_rtns is tried with the other switches
\* at their defaults.
RtnConfs ==
    [to_log : Booleans, skip_bos_weight : {FALSE}, use_weights : {TRUE},
     rmeps : Booleans, minimize_rtns : {FALSE}]
    \cup [to_log : {TRUE}, skip_bos_weight : {FALSE}, use_weights : {TRUE},
          rmeps : {TRUE}, minimize_rtns : {TRUE}]

\* The symbols the decoder consumes.
RtnSymbols == {EOS_ID, 5}

InitRtn ==
    /\ variant = "rtn"
    /\ distances = NoDistances
    /\ conf \in RtnConfs
    /\ disk \in RtnDisks
    /\ phase = "new"
    /\ cur_fst = NoneRtn
    /\ cur_node = NoStateId
    /\ bos_score = PyNone
    /\ cur_nodes = NullAddr
    /\ cur_history = NullAddr
    /\ sub_fsts = <<>>
    /\ heap = EmptyHeap
    /\ snap = NoSnap
    /\ out = Out("new", 0, 0, Ret("", PyNone, <<>>))
    /\ nconsumed = 0

\* initialize, for the first sentence or again after some decoding: the
\* decoder starts over, keeping no snapshot.  out.pre is the history and
\* out.num the size of the cache before the call.
RtnInitializeAct ==
    /\ variant = "rtn" /\ phase \in {"new", "ready"}
    /\ LET r == RtnInitialize(disk)
           a == AssignNew(heap, <<>>)
           b == IF r.go THEN RtnAppend(a.heap, a.ref, GO_ID) ELSE a
           z == Compact(b.heap, b.ref, NullAddr)
       IN  /\ cur_fst' = r.fst
           /\ cur_history' = z.cur
           /\ heap' = z.heap
    /\ snap' = NoSnap
    /\ sub_fsts' = <<>>
    /\ out' = Out("initialize", 0,
                IF phase = "new" THEN <<>> ELSE heap[cur_history],
                Ret("", Num(Len(sub_fsts)), <<>>))
    /\ phase' = "ready"
    /\ nconsumed' = 0
    /\ UNCHANGED <<distances, variant, conf, disk, cur_node, bos_score, cur_nodes>>

\* predict_next may replace cur_fst and fill the sub_fsts cache.  A call that
\* never returns leaves the decoder waiting: no call follows it.
RtnPredictNextAct ==
    /\ variant = "rtn" /\ phase = "ready"
    /\ \E r \in {RtnPredictNext(cur_fst, sub_fsts, conf, disk.subs,
                                 heap[cur_history])} :
           /\ cur_fst' = r.fst
           /\ sub_fsts' = r.cache
           /\ phase' = IF r.exc = NoReturn THEN "waiting" ELSE phase
           /\ out' = Out("predict_next", AfterRestore(out), heap[cur_history],
                       Ret(r.exc, r.num, r.dist))
    /\ UNCHANGED <<distances, variant, conf, disk, cur_node, bos_score, cur_nodes,
                   cur_history, heap, snap, nconsumed>>

RtnConsumeAct ==
    /\ variant = "rtn" /\ phase = "ready" /\ nconsumed < MaxConsumes
    /\ \E word \in RtnSymbols :
         LET a == RtnAppend(heap, cur_history, word)
         IN  /\ heap' = a.heap
             /\ cur_history' = a.ref
             /\ out' = Out("consume", word, heap[cur_history], Ret("", PyNone, <<>>))
    /\ nconsumed' = nconsumed + 1
    /\ UNCHANGED <<distances, variant, conf, disk, phase, cur_fst, cur_node, bos_score,
                   cur_nodes, sub_fsts, snap>>

\* get_state returns the list object itself; the decoder notes its value.
RtnGetStateAct ==
    /\ variant = "rtn" /\ phase = "ready"
    /\ LET z == Compact(heap, cur_history, cur_history)
       IN  /\ heap' = z.heap
           /\ cur_history' = z.cur
           /\ snap' = [has |-> TRUE, node |-> NoStateId, ref |-> z.snap,
                       val |-> heap[cur_history], d |-> Ret("", PyNone, <<>>),
                       moved |-> FALSE]
    /\ out' = Out("get_state", 0, heap[cur_history], Ret("", PyNone, <<>>))
    /\ UNCHANGED <<distances, variant, conf, disk, phase, cur_fst, cur_node, bos_score,
                   cur_nodes, sub_fsts, nconsumed>>

RtnSetStateAct ==
    /\ variant = "rtn" /\ phase = "ready" /\ snap.has
    /\ LET z == Compact(heap, snap.ref, snap.ref)
       IN  /\ heap' = z.heap
           /\ cur_history' = z.cur
           /\ snap' = [snap EXCEPT !.ref = z.snap]
    /\ out' = Out("set_state", 0, heap[cur_history], Ret("", PyNone, <<>>))
    /\ UNCHANGED <<distances, variant, conf, disk, phase, cur_fst, cur_node, bos_score,
                   cur_nodes, sub_fsts, nconsumed>>

NextRtn ==
    \/ RtnInitializeAct
    \/ RtnPredictNextAct
    \/ RtnConsumeAct
    \/ RtnGetStateAct
    \/ RtnSetStateAct

SpecRtn == InitRtn /\ [][NextRtn]_vars

----------------------------------------------------------------------------
(* Both lattice predictors                                                 *)

InitLattice == InitFst \/ InitNfst
NextLattice == NextFst \/ NextNfst
SpecLattice == InitLattice /\ [][NextLattice]_vars

(* Any of the three predictors *)
Init == InitFst \/ InitNfst \/ InitRtn
Next == NextFst \/ NextNfst \/ NextRtn
Spec == Init /\ [][Next]_vars

----------------------------------------------------------------------------
(* _follow_eps called on its own                                           *)

\* Epsilon arcs with weights of both signs, with and without cycles, and
\* word arcs that make a state one the closure returns.
EpsArcPool ==
    << Arc(0, 1, EPS_ID, 1),
       Arc(0, 2, EPS_ID, 3),
       Arc(1, 2, EPS_ID, 1),
       Arc(2, 1, EPS_ID, -1),
       Arc(2, 0, EPS_ID, -1),
       Arc(1, 3, EPS_ID, -2),
       Arc(0, 3, 5, 1),
       Arc(1, 3, 5, 1),
       Arc(2, 3, 5, 1),
       Arc(3, 3, 5, 0) >>

EpsStates == 0 .. 3

EpsAutomata ==
    {MkFst(0, SelectSeq(EpsArcPool, LAMBDA a : a \in S)) :
        S \in {T \in SUBSET Range(EpsArcPool) : Cardinality(T) <= MaxArcs}}

\* The root dicts: at most two states, in either insertion order.
RootScores == {0, -2}
RootMaps ==
    {<<>>}
    \cup {<< <<n, s>> >> : n \in EpsStates, s \in RootScores}
    \cup {<< <<p[1], s1>>, <<p[2], s2>> >> :
            p \in {q \in EpsStates \X EpsStates : q[1] # q[2]},
            s1 \in RootScores, s2 \in RootScores}

\* The best score of a walk of at most k epsilon arcs from s to t, NEG_INF
\* when there is none; the walk of no arc scores 0.
RECURSIVE EpsGain(_, _, _)
EpsGain(f, wf, k) ==
    IF k = 0
    THEN [s \in EpsStates |-> [t \in EpsStates |-> IF s = t THEN 0 ELSE NEG_INF]]
    ELSE Bind(EpsGain(f, wf, k - 1), LAMBDA g :
            [s \in EpsStates |-> [t \in EpsStates |->
                SetMax({g[s][t]} \cup
                       {g[s][a.src] + wf * a.weight :
                           a \in {b \in Range(f.arcs) :
                                     b.olabel = EPS_ID /\ b.nextstate = t
                                     /\ g[s][b.src] > NEG_INF}})]])

\* Some cycle of epsilon arcs raises the score: _follow_eps does not return
\* when its roots reach such a cycle.
ImprovingCycle(f, wf) ==
    \E a \in Range(f.arcs) :
        /\ a.olabel = EPS_ID
        /\ EpsGain(f, wf, Cardinality(EpsStates))[a.nextstate][a.src] > NEG_INF
        /\ EpsGain(f, wf, Cardinality(EpsStates))[a.nextstate][a.src]
             + wf * a.weight > 0

\* The dict {node: weight} of a list of (weight, node).
AsRoots(nodes) == [i \in DOMAIN nodes |-> <<nodes[i][2], nodes[i][1]>>]

InitClosure ==
    /\ variant = "follow_eps"
    /\ distances = NoDistances
    /\ conf \in [to_log : Booleans, skip_bos_weight : {TRUE}, use_weights : {TRUE},
                 rmeps : {FALSE}, minimize_rtns : {FALSE}]
    /\ disk \in {[readable |-> TRUE, fst |-> f] : f \in EpsAutomata}
    /\ ~ImprovingCycle(disk.fst, WeightFactor(conf.to_log))
    /\ phase = "new"
    /\ cur_fst = disk.fst
    /\ cur_node = NoStateId
    /\ bos_score = PyNone
    /\ cur_nodes = 1
    /\ cur_history = NullAddr
    /\ sub_fsts = <<>>
    /\ heap \in {[a \in {1} |-> r] : r \in RootMaps}
    /\ snap = NoSnap
    /\ out = Out("new", 0, 0, Ret("", PyNone, <<>>))
    /\ nconsumed = 0

\* nodes = self._follow_eps(roots)
FollowEpsAct ==
    /\ variant = "follow_eps" /\ phase = "new"
    /\ \E r \in {FollowEps(cur_fst, conf.to_log, heap[cur_nodes])} :
          /\ out' = Out("_follow_eps", 0, heap[cur_nodes], Ret("", PyNone, r))
          /\ heap' = [heap EXCEPT ![cur_nodes] = r]
    /\ phase' = "closed"
    /\ UNCHANGED <<distances, variant, conf, disk, cur_fst, cur_node, bos_score, cur_nodes,
                   cur_history, sub_fsts, snap, nconsumed>>

\* self._follow_eps({node: weight for weight, node in nodes})
FollowEpsAgainAct ==
    /\ variant = "follow_eps" /\ phase = "closed"
    /\ \E r \in {FollowEps(cur_fst, conf.to_log, AsRoots(heap[cur_nodes]))} :
          out' = Out("_follow_eps", 1, AsRoots(heap[cur_nodes]), Ret("", PyNone, r))
    /\ phase' = "reclosed"
    /\ UNCHANGED <<distances, variant, conf, disk, cur_fst, cur_node, bos_score, cur_nodes,
                   cur_history, sub_fsts, heap, snap, nconsumed>>

NextClosure ==
    \/ FollowEpsAct
    \/ FollowEpsAgainAct

SpecClosure == InitClosure /\ [][NextClosure]_vars

----------------------------------------------------------------------------
(* NondeterministicFstPredictor.is_equal called on its own                 *)

\* sorted(ints): Python's sort of a list of state ids.
SortedInts(sq) ==
    [k \in DOMAIN sq |->
        sq[CHOOSE i \in DOMAIN sq :
              1 + Cardinality({j \in DOMAIN sq :
                                  sq[j] < sq[i] \/ (sq[j] = sq[i] /\ j < i)}) = k]]

\* [n for _, n in state]
NodeList(state) == [i \in DOMAIN state |-> state[i][2]]

\* The two states compared as lists, scores and order included.
IsEqualAsLists(state1, state2) == state1 = state2

\* is_equal(state1, state2)
IsEqual(state1, state2) ==
    SortedInts(NodeList(state1)) = SortedInts(NodeList(state2))

\* The frontiers handed to is_equal: lists of (weight, node) of at most
\* MaxFrontier members, no state twice, in every order.
MaxFrontier == 3
FrontierWeights == {0, -1}
Frontiers ==
    UNION {{fr \in [1 .. n -> FrontierWeights \X EpsStates] :
               \A i, j \in 1 .. n : fr[i][2] = fr[j][2] => i = j} :
           n \in 0 .. MaxFrontier}

InitIsEqual ==
    /\ variant = "is_equal"
    /\ distances = NoDistances
    /\ conf \in [to_log : {TRUE}, skip_bos_weight : {TRUE}, use_weights : {TRUE},
                 rmeps : {FALSE}, minimize_rtns : {FALSE}]
    /\ disk = MissingFile
    /\ phase = "new"
    /\ cur_fst = NoneFst
    /\ cur_node = NoStateId
    /\ bos_score = PyNone
    /\ cur_nodes = 1
    /\ cur_history = NullAddr
    /\ sub_fsts = <<>>
    /\ heap \in {[a \in {1, 2} |-> IF a = 1 THEN p[1] ELSE p[2]] :
                    p \in Frontiers \X Frontiers}
    /\ snap = NoSnap
    /\ out = Out("new", 0, 0, Ret("", PyNone, <<>>))
    /\ nconsumed = 0

\* is_equal(state1, state2) on the lists at addresses 1 and 2; True is 1.
IsEqualAct ==
    /\ variant = "is_equal" /\ phase = "new"
    /\ out' = Out("is_equal", 0, <<heap[1], heap[2]>>,
                Ret("", Num(IF IsEqual(heap[1], heap[2]) THEN 1 ELSE 0), <<>>))
    /\ phase' = "compared"
    /\ UNCHANGED <<distances, variant, conf, disk, cur_fst, cur_node, bos_score, cur_nodes,
                   cur_history, sub_fsts, heap, snap, nconsumed>>

NextIsEqual == IsEqualAct

SpecIsEqual == InitIsEqual /\ [][NextIsEqual]_vars

----------------------------------------------------------------------------
(* get_unk_probability of the three predictors                             *)

\* utils.common_get on a dict posterior.
CommonGet(posterior, key, default) == DGet(posterior, key, default)

FstGetUnkProbability(posterior) == CommonGet(posterior, UNK_ID, NEG_INF)

\* The nondeterministic variant looking the unknown word up.
NfstGetUnkProbabilityLookup(posterior) == CommonGet(posterior, UNK_ID, NEG_INF)

NfstGetUnkProbability(posterior) == NEG_INF

RtnGetUnkProbability(posterior) == NEG_INF

\* The distributions handed in: every dict over the end marker, the unknown
\* word and the word 5.
PosteriorScores == {0, -1, -3}
Posteriors ==
    {SelectSeq([i \in 1 .. 3 |-> <<<<EOS_ID, UNK_ID, 5>>[i], sc[i]>>],
               LAMBDA p : p[1] \in K) :
        K \in SUBSET {EOS_ID, UNK_ID, 5}, sc \in [1 .. 3 -> PosteriorScores]}

\* The three predictors as constructed, no sentence loaded.
InitUnk ==
    /\ variant \in {"fst", "nfst", "rtn"}
    /\ distances = NoDistances
    /\ conf = [to_log |-> TRUE, skip_bos_weight |-> TRUE, use_weights |-> TRUE,
               rmeps |-> TRUE, minimize_rtns |-> FALSE]
    /\ disk = MissingFile
    /\ phase = "new"
    /\ cur_fst = NoneFst
    /\ cur_node = NoStateId
    /\ bos_score = PyNone
    /\ cur_nodes = IF variant = "nfst" THEN 1 ELSE NullAddr
    /\ cur_history = NullAddr
    /\ sub_fsts = <<>>
    /\ heap = IF variant = "nfst" THEN [a \in {1} |-> <<>>] ELSE EmptyHeap
    /\ snap = NoSnap
    /\ out = Out("new", 0, 0, Ret("", PyNone, <<>>))
    /\ nconsumed = 0

FstGetUnkProbabilityAct ==
    /\ variant = "fst"
    /\ \E posterior \in Posteriors :
          out' = Out("get_unk_probability", 0, posterior,
                     Ret("", Num(FstGetUnkProbability(posterior)), <<>>))
    /\ UNCHANGED <<distances, variant, conf, disk, phase, cur_fst, cur_node, bos_score,
                   cur_nodes, cur_history, sub_fsts, heap, snap, nconsumed>>

NfstGetUnkProbabilityAct ==
    /\ variant = "nfst"
    /\ \E posterior \in Posteriors :
          out' = Out("get_unk_probability", 0, posterior,
                     Ret("", Num(NfstGetUnkProbability(posterior)), <<>>))
    /\ UNCHANGED <<distances, variant, conf, disk, phase, cur_fst, cur_node, bos_score,
                   cur_nodes, cur_history, sub_fsts, heap, snap, nconsumed>>

RtnGetUnkProbabilityAct ==
    /\ variant = "rtn"
    /\ \E posterior \in Posteriors :
          out' = Out("get_unk_probability", 0, posterior,
                     Ret("", Num(RtnGetUnkProbability(posterior)), <<>>))
    /\ UNCHANGED <<distances, variant, conf, disk, phase, cur_fst, cur_node, bos_score,
                   cur_nodes, cur_history, sub_fsts, heap, snap, nconsumed>>

NextUnk ==
    \/ FstGetUnkProbabilityAct
    \/ NfstGetUnkProbabilityAct
    \/ RtnGetUnkProbabilityAct

SpecUnk == InitUnk /\ [][NextUnk]_vars

----------------------------------------------------------------------------
(* initialize_heuristic and estimate_future_cost of the lattice predictors *)

\* fst.shortestdistance(f, reverse=True) in the tropical semiring: for every
\* state the least weight of a path to a final state plus its final weight,
\* Infinity when no final state is reached.  The list ends at the last state
\* that reaches a final state; it is empty when no state does.
RECURSIVE DistRelax(_, _, _)
DistRelax(arcs, n, d0) ==
    Bind(d0, LAMBDA d :
        Bind([t \in 0 .. n - 1 |->
                 SetMin({d[t]} \cup
                        {a.weight + d[a.nextstate] :
                            a \in {b \in Range(arcs) : b.src = t
                                                       /\ d[b.nextstate] < Infinity}})],
             LAMBDA d2 : IF d2 = d THEN d ELSE DistRelax(arcs, n, d2)))
ShortestDistance(f) ==
    IF f.start = NoStateId THEN <<>>
    ELSE LET n == NumStates(f)
             d == DistRelax(f.arcs, n,
                            [t \in 0 .. n - 1 |-> DGet(f.finals, t, Infinity)])
             reach == {t \in 0 .. n - 1 : d[t] < Infinity}
         IN  IF reach = {} THEN <<>>
             ELSE [k \in 1 .. SetMax(reach) + 1 |-> d[k - 1]]

\* initialize_heuristic of both predictors: [exc, distances]; shortestdistance
\* refuses None.
InitializeHeuristic(f, old) ==
    IF f.isNone THEN [exc |-> "TypeError", distances |-> old]
    ELSE [exc |-> "", distances |-> [set |-> TRUE, d |-> ShortestDistance(f),
                                     of |-> f]]

\* self.distances[state]: [exc, ret].
DistanceAt(dist, state) ==
    IF ~dist.set THEN [exc |-> "AttributeError", ret |-> PyNone]
    ELSE IF state >= Len(dist.d) THEN [exc |-> "IndexError", ret |-> PyNone]
    ELSE [exc |-> "", ret |-> Num(W2F(dist.d[state + 1]))]

\* The arc loop of FstPredictor.estimate_future_cost.
RECURSIVE FstEstimateLoop(_, _, _)
FstEstimateLoop(arcs, dist, last_word) ==
    IF arcs = <<>> THEN [exc |-> "", ret |-> Num(0)]
    ELSE IF Head(arcs).olabel = last_word THEN DistanceAt(dist, Head(arcs).nextstate)
    ELSE FstEstimateLoop(Tail(arcs), dist, last_word)

\* FstPredictor.estimate_future_cost(hypo), last_word = hypo.trgt_sentence[-1]:
\* [exc, ret].  `not self.cur_node` holds of None and of the state 0.
FstEstimateFutureCost(f, node, dist, last_word) ==
    IF node = NoneNode \/ node = 0 THEN [exc |-> "", ret |-> Num(0)]
    ELSE IF f.isNone THEN [exc |-> "AttributeError", ret |-> PyNone]
    ELSE IF node < 0 THEN [exc |-> "FstIndexError", ret |-> PyNone]
    ELSE FstEstimateLoop(Arcs(f, node), dist, last_word)

\* NondeterministicFstPredictor.estimate_future_cost(hypo): [exc, ret].  The
\* loop takes each (weight, node) pair n of cur_nodes and evaluates
\* self.cur_fst[n]; an automaton cannot be subscripted, so the first pair
\* raises and dists stays empty otherwise.
NfstEstimateFutureCost(f, nodes, dist, last_word) ==
    IF nodes = <<>> THEN [exc |-> "", ret |-> Num(0)]
    ELSE [exc |-> "TypeError", ret |-> PyNone]

\* The lattices the heuristic is tried on: start state 0 or 3, so that the
\* state 0 is entered by the begin marker or by a word; the last state is
\* final.
HeurArcPool ==
    << Arc(0, 1, GO_ID, 0),
       Arc(3, 0, GO_ID, 1),
       Arc(0, 2, 5, 2),
       Arc(1, 2, 5, 1),
       Arc(1, 0, EOS_ID, 1),
       Arc(1, 4, EOS_ID, 1),
       Arc(2, 4, EOS_ID, 3) >>

HeurFinals == << <<4, 1>> >>

HeurLattices ==
    {MkRtn(st, SelectSeq(HeurArcPool, LAMBDA a : a \in S), HeurFinals) :
        st \in {0, 3},
        S \in {T \in SUBSET Range(HeurArcPool) : Cardinality(T) <= MaxArcs}}

\* The file of the sentence after: a lattice over the same states with other
\* weights, or no file.
SecondLattice ==
    MkRtn(0, <<Arc(0, 1, GO_ID, 0), Arc(1, 2, 5, 4), Arc(2, 4, EOS_ID, 5)>>,
          << <<4, 0>> >>)
NextSentences ==
    {<<>>,
     << [readable |-> TRUE, fst |-> SecondLattice] >>,
     << MissingFile >>}

\* The files of the sentences to decode: the one initialize reads next and
\* those after it.
HeurFiles ==
    {[readable |-> TRUE, fst |-> f, rest |-> r] :
        f \in HeurLattices, r \in NextSentences}

InitHeuristic ==
    /\ variant \in {"fst", "nfst"}
    /\ distances = NoDistances
    /\ conf \in [to_log : {TRUE}, skip_bos_weight : {TRUE}, use_weights : {TRUE},
                 rmeps : {FALSE}, minimize_rtns : {FALSE}]
    /\ disk \in HeurFiles
    /\ phase = "new"
    /\ cur_fst = NoneFst
    /\ cur_node = NoStateId
    /\ bos_score = PyNone
    /\ cur_nodes = IF variant = "fst" THEN NullAddr ELSE 1
    /\ cur_history = NullAddr
    /\ sub_fsts = <<>>
    /\ heap = IF variant = "fst" THEN EmptyHeap ELSE [a \in {1} |-> <<>>]
    /\ snap = NoSnap
    /\ out = Out("new", 0, 0, Ret("", PyNone, <<>>))
    /\ nconsumed = 0

\* initialize for the next sentence: the decoder has moved current_sen_id on
\* and keeps no snapshot.  self.distances is not assigned.
FstInitializeNextAct ==
    /\ variant = "fst" /\ phase = "ready" /\ disk.rest # <<>>
    /\ LET file == Head(disk.rest)
           r == FstInitialize(file, conf.to_log, bos_score)
       IN  /\ cur_fst' = r.fst
           /\ cur_node' = r.node
           /\ bos_score' = r.bos
           /\ out' = Out("initialize", 1, cur_node, Ret(r.exc, PyNone, <<>>))
           /\ disk' = [readable |-> file.readable, fst |-> file.fst,
                       rest |-> Tail(disk.rest)]
    /\ snap' = NoSnap
    /\ nconsumed' = 0
    /\ UNCHANGED <<distances, variant, conf, phase, cur_nodes, cur_history,
                   sub_fsts, heap>>

FstInitializeHeuristicAct ==
    /\ variant = "fst" /\ phase = "ready"
    /\ \E r \in {InitializeHeuristic(cur_fst, distances)} :
          /\ distances' = r.distances
          /\ out' = Out("initialize_heuristic", 0, cur_node, Ret(r.exc, PyNone, <<>>))
    /\ UNCHANGED <<variant, conf, disk, phase, cur_fst, cur_node, bos_score,
                   cur_nodes, cur_history, sub_fsts, heap, snap, nconsumed>>

\* out.arg is the last word of the hypothesis, out.pre the active state.
FstEstimateFutureCostAct ==
    /\ variant = "fst" /\ phase = "ready"
    /\ \E last_word \in Symbols :
          \E r \in {FstEstimateFutureCost(cur_fst, cur_node, distances, last_word)} :
             out' = Out("estimate_future_cost", last_word, cur_node,
                        Ret(r.exc, r.ret, <<>>))
    /\ UNCHANGED <<distances, variant, conf, disk, phase, cur_fst, cur_node,
                   bos_score, cur_nodes, cur_history, sub_fsts, heap, snap,
                   nconsumed>>

NfstInitializeHeuristicAct ==
    /\ variant = "nfst" /\ phase = "ready"
    /\ \E r \in {InitializeHeuristic(cur_fst, distances)} :
          /\ distances' = r.distances
          /\ out' = Out("initialize_heuristic", 0, heap[cur_nodes],
                        Ret(r.exc, PyNone, <<>>))
    /\ UNCHANGED <<variant, conf, disk, phase, cur_fst, cur_node, bos_score,
                   cur_nodes, cur_history, sub_fsts, heap, snap, nconsumed>>

\* out.arg is the last word of the hypothesis, out.pre the frontier.
NfstEstimateFutureCostAct ==
    /\ variant = "nfst" /\ phase = "ready"
    /\ \E last_word \in Symbols :
          \E r \in {NfstEstimateFutureCost(cur_fst, heap[cur_nodes], distances,
                                           last_word)} :
             out' = Out("estimate_future_cost", last_word, heap[cur_nodes],
                        Ret(r.exc, r.ret, <<>>))
    /\ UNCHANGED <<distances, variant, conf, disk, phase, cur_fst, cur_node,
                   bos_score, cur_nodes, cur_history, sub_fsts, heap, snap,
                   nconsumed>>

NextHeuristic ==
    \/ FstInitializeAct
    \/ FstInitializeNextAct
    \/ FstInitializeHeuristicAct
    \/ FstEstimateFutureCostAct
    \/ FstConsumeAct
    \/ NfstInitializeAct
    \/ NfstInitializeHeuristicAct
    \/ NfstEstimateFutureCostAct
    \/ NfstConsumeAct

SpecHeuristic == InitHeuristic /\ [][NextHeuristic]_vars

----------------------------------------------------------------------------
(* _follow_eps, one round of its while loop at a time                      *)

\* The root dicts of the rounds: none, one state, or two states with
\* different scores.
LoopRootMaps ==
    {<<>>}
    \cup {<< <<n, 0>> >> : n \in EpsStates}
    \cup {<< <<p[1], 0>>, <<p[2], -2>> >> :
            p \in {q \in EpsStates \X EpsStates : q[1] # q[2]}}

\* The automata whose epsilon cycles all have a total sign*weight <= 0.
InitClosureLoop ==
    /\ variant = "follow_eps_loop"
    /\ distances = NoDistances
    /\ conf \in [to_log : Booleans, skip_bos_weight : {TRUE}, use_weights : {TRUE},
                 rmeps : {FALSE}, minimize_rtns : {FALSE}]
    /\ disk \in {[readable |-> TRUE, fst |-> f] : f \in EpsAutomata}
    /\ ~ImprovingCycle(disk.fst, WeightFactor(conf.to_log))
    /\ phase = "new"
    /\ cur_fst = disk.fst
    /\ cur_node = NoStateId
    /\ bos_score = PyNone
    /\ cur_nodes = 1
    /\ cur_history = NullAddr
    /\ sub_fsts = <<>>
    /\ heap \in {<<r>> : r \in LoopRootMaps}
    /\ snap = NoSnap
    /\ out = Out("new", 0, 0, Ret("", PyNone, <<>>))
    /\ nconsumed = 0

\* The locals of _follow_eps on the heap, behind the roots.
OpenNodes == 2
Visited == 3
DNodes == 4

\* open_nodes = dict(roots); d = {}; visited = dict(roots)
FollowEpsBeginAct ==
    /\ variant = "follow_eps_loop" /\ phase = "new"
    /\ heap' = <<heap[cur_nodes], heap[cur_nodes], heap[cur_nodes], <<>> >>
    /\ phase' = "following"
    /\ out' = Out("_follow_eps", 0, heap[cur_nodes], Ret("", PyNone, <<>>))
    /\ UNCHANGED <<distances, variant, conf, disk, cur_fst, cur_node, bos_score,
                   cur_nodes, cur_history, sub_fsts, snap, nconsumed>>

\* One round of `while open_nodes:`.
FollowEpsLevelAct ==
    /\ variant = "follow_eps_loop" /\ phase = "following"
    /\ heap[OpenNodes] # <<>>
    /\ \E r \in {FollowEpsLevel(heap[OpenNodes], cur_fst, WeightFactor(conf.to_log),
                                heap[Visited], <<>>, heap[DNodes])} :
          heap' = [heap EXCEPT ![OpenNodes] = r.next_open,
                               ![Visited] = r.visited,
                               ![DNodes] = r.d]
    /\ UNCHANGED <<distances, variant, conf, disk, phase, cur_fst, cur_node, bos_score,
                   cur_nodes, cur_history, sub_fsts, snap, out, nconsumed>>

\* The loop is left with open_nodes empty: return [(weight, node) ...].
FollowEpsReturnAct ==
    /\ variant = "follow_eps_loop" /\ phase = "following"
    /\ heap[OpenNodes] = <<>>
    /\ phase' = "closed"
    /\ out' = Out("_follow_eps", 1, heap[cur_nodes],
                  Ret("", PyNone,
                      [i \in DOMAIN heap[DNodes] |->
                          <<heap[DNodes][i][2], heap[DNodes][i][1]>>]))
    /\ UNCHANGED <<distances, variant, conf, disk, cur_fst, cur_node, bos_score,
                   cur_nodes, cur_history, sub_fsts, heap, snap, nconsumed>>

NextClosureLoop ==
    \/ FollowEpsBeginAct
    \/ FollowEpsLevelAct
    \/ FollowEpsReturnAct

\* A call of _follow_eps runs on: its next round, or its return, is taken.
SpecClosureLoop ==
    /\ InitClosureLoop /\ [][NextClosureLoop]_vars
    /\ WF_vars(FollowEpsLevelAct) /\ WF_vars(FollowEpsReturnAct)

----------------------------------------------------------------------------
(* A decoder summing the scores of NondeterministicFstPredictor            *)

\* Lattices over the states 0 .. 3: the begin arc and up to MaxArcs arcs of
\* the pool, in pool order.  The pool has a second begin arc, words on
\* parallel routes of different weight, and epsilon arcs of both signs with
\* a cycle of total weight zero.
SumArcPool ==
    << Arc(0, 2, GO_ID, 0),
       Arc(1, 2, EPS_ID, -1),
       Arc(1, 2, 5, 1),
       Arc(1, 3, 5, 3),
       Arc(1, 3, EOS_ID, 2),
       Arc(2, 1, EPS_ID, 1),
       Arc(2, 3, 5, 5),
       Arc(2, 3, EPS_ID, -2),
       Arc(3, 3, 5, 1) >>

SumLattices ==
    {MkFst(0, <<Arc(0, 1, GO_ID, 1)>> \o SelectSeq(SumArcPool, LAMBDA a : a \in S)) :
        S \in {T \in SUBSET Range(SumArcPool) : Cardinality(T) <= MaxArcs}}

\* to_log and skip_bos_weight set, weights on, normalize off.
InitSum ==
    /\ variant = "nfst_sum"
    /\ distances = NoDistances
    /\ conf \in [to_log : {TRUE}, skip_bos_weight : {TRUE}, use_weights : {TRUE},
                 rmeps : {FALSE}, minimize_rtns : {FALSE}]
    /\ disk \in {[readable |-> TRUE, fst |-> f] : f \in SumLattices}
    /\ ~ImprovingCycle(disk.fst, WeightFactor(conf.to_log))
    /\ phase = "new"
    /\ cur_fst = NoneFst
    /\ cur_node = NoStateId
    /\ bos_score = PyNone
    /\ cur_nodes = 1
    /\ cur_history = NullAddr
    /\ sub_fsts = <<>>
    /\ heap = [a \in {1} |-> <<>>]
    /\ snap = NoSnap
    /\ out = Out("new", 0, <<>>, Ret("", PyNone, <<>>))
    /\ nconsumed = 0

\* initialize; the decoder starts with the sum 0 (out.arg) and no word
\* (out.pre).
SumInitializeAct ==
    /\ variant = "nfst_sum" /\ phase = "new"
    /\ LET r == NfstInitialize(disk, conf)
           a == NfstAssignNodes(heap, cur_nodes, r.nodes)
           z == Compact(a.heap, a.ref, NullAddr)
       IN  /\ cur_fst' = r.fst
           /\ cur_nodes' = z.cur
           /\ heap' = z.heap
           /\ out' = Out("initialize", 0, <<>>, Ret(r.exc, PyNone, <<>>))
           /\ phase' = IF r.exc = "" THEN "ready" ELSE "failed"
    /\ UNCHANGED <<distances, variant, conf, disk, cur_node, bos_score, cur_history,
                   sub_fsts, snap, nconsumed>>

\* predict_next; the decoder keeps the distribution (out.dist).
SumPredictNextAct ==
    /\ variant = "nfst_sum" /\ phase = "ready"
    /\ out' = Out("predict_next", out.arg, out.pre,
                  NfstPredictNext(cur_fst, conf, heap[cur_nodes]))
    /\ phase' = "predicted"
    /\ UNCHANGED <<distances, variant, conf, disk, cur_fst, cur_node, bos_score,
                   cur_nodes, cur_history, sub_fsts, heap, snap, nconsumed>>

\* consume(word) right after predict_next; the decoder adds the score the
\* distribution gave the word.  A word that is not in the distribution makes
\* consume raise, and the decoder gives up.
SumConsumeAct ==
    /\ variant = "nfst_sum" /\ phase = "predicted" /\ nconsumed < MaxConsumes
    /\ \E word \in {EOS_ID, 5} :
         LET r == NfstConsume(cur_fst, conf, heap[cur_nodes], word)
             a == NfstAssignNodes(heap, cur_nodes, r.nodes)
             z == Compact(a.heap, a.ref, NullAddr)
         IN  IF r.exc # ""
             THEN /\ UNCHANGED <<cur_nodes, heap>>
                  /\ out' = Out("consume", out.arg, out.pre, Ret(r.exc, PyNone, <<>>))
                  /\ phase' = "failed"
             ELSE /\ cur_nodes' = z.cur
                  /\ heap' = z.heap
                  /\ out' = Out("consume", out.arg + DGet(out.dist, word, 0),
                                Append(out.pre, word),
                                Ret("", Num(r.consumed), <<>>))
                  /\ phase' = "ready"
    /\ nconsumed' = nconsumed + 1
    /\ UNCHANGED <<distances, variant, conf, disk, cur_fst, cur_node, bos_score,
                   cur_history, sub_fsts, snap>>

NextSum ==
    \/ SumInitializeAct
    \/ SumPredictNextAct
    \/ SumConsumeAct

SpecSum == InitSum /\ [][NextSum]_vars

----------------------------------------------------------------------------
(* expand_rtn, one round of its while loop at a time                       *)

\* The cap of the round counter kept in out.arg.
MaxPasses == 6

\* A second nonterminal.
NtLabelB == NtBase + 2

\* Root automata with one or two nonterminal arcs: a sequence, a cycle
\* through the nonterminal closed by an epsilon arc, and a root whose final
\* state cannot be reached.
ExpandRoots ==
    {MkRtn(0, <<Arc(0, 1, GO_ID, 0), Arc(1, 2, NtLabel, 1), Arc(2, 3, NtLabelB, 2),
                Arc(3, 4, EOS_ID, 1)>>, << <<4, 0>> >>),
     MkRtn(0, <<Arc(0, 1, GO_ID, 0), Arc(1, 2, EPS_ID, 1), Arc(2, 1, NtLabel, 1),
                Arc(1, 3, EOS_ID, 2)>>, << <<3, 0>> >>),
     MkRtn(0, <<Arc(0, 1, GO_ID, 0), Arc(1, 2, NtLabel, 1)>>, << <<3, 0>> >>)}

\* Automata of the first nonterminal: starting with the second nonterminal;
\* recursive behind a word; with a final start state and an epsilon arc in
\* front of the recursion.
ExpandSubsA ==
    {MkRtn(0, <<Arc(0, 1, NtLabelB, 1), Arc(1, 2, 5, 1)>>, << <<2, 0>> >>),
     MkRtn(0, <<Arc(0, 1, 5, 1), Arc(0, 2, EOS_ID, 2), Arc(1, 2, NtLabel, 1)>>,
           << <<2, 1>> >>),
     MkRtn(0, <<Arc(0, 1, 5, 2), Arc(1, 2, EPS_ID, 1), Arc(2, 0, NtLabel, 0)>>,
           << <<0, 1>>, <<1, 0>> >>)}

\* Automata of the second nonterminal: flat; calling the first nonterminal
\* behind a word; starting with the first nonterminal.
ExpandSubsB ==
    {MkRtn(0, <<Arc(0, 1, 5, 1)>>, << <<1, 1>> >>),
     MkRtn(0, <<Arc(0, 1, 5, 0), Arc(1, 2, NtLabel, 1)>>, << <<2, 0>> >>),
     MkRtn(0, <<Arc(0, 1, NtLabel, 0), Arc(1, 2, 5, 1)>>, << <<2, 0>> >>)}

\* The states reached from S along epsilon arcs and nonterminal arcs, and
\* the nonterminals on the arcs between them, for the start state of g.
RECURSIVE CallReach(_, _)
CallReach(g, S) ==
    LET T == S \cup {g.arcs[i].nextstate :
                        i \in {j \in DOMAIN g.arcs :
                                  /\ g.arcs[j].src \in S
                                  /\ \/ g.arcs[j].olabel = EPS_ID
                                     \/ IsNtLabel(g.arcs[j].olabel)}}
    IN  IF T = S THEN S ELSE CallReach(g, T)

LeadingNts(g) ==
    {g.arcs[i].olabel :
        i \in {j \in DOMAIN g.arcs : /\ g.arcs[j].src \in CallReach(g, {g.start})
                                     /\ IsNtLabel(g.arcs[j].olabel)}}

\* The nonterminals reached that way from the sub-automata of S, directly or
\* through others.
RECURSIVE LeadsTo(_, _)
LeadsTo(subs, S) ==
    LET T == S \cup UNION {LeadingNts(subs[i][2].fst) :
                              i \in {j \in DOMAIN subs : subs[j][1] \in S}}
    IN  IF T = S THEN S ELSE LeadsTo(subs, T)

LeftRecursive(subs) ==
    \E i \in DOMAIN subs : subs[i][1] \in LeadsTo(subs, LeadingNts(subs[i][2].fst))

\* The grammars in which no sub-automaton reaches a nonterminal arc for
\* itself from its start state along epsilon and nonterminal arcs alone.
ExpandDisks ==
    {d \in {[direct |-> RtnFile(1, TRUE, TRUE, root), ntmap |-> NoNtmap, dir |-> <<>>,
             subs |-> << <<NtLabel, RtnFile(NtLabel, TRUE, TRUE, a)>>,
                         <<NtLabelB, RtnFile(NtLabelB, TRUE, TRUE, b)>> >>] :
               root \in ExpandRoots, a \in ExpandSubsA, b \in ExpandSubsB} :
        ~LeftRecursive(d.subs)}

ExpandConfs ==
    [to_log : {TRUE}, skip_bos_weight : {FALSE}, use_weights : {TRUE},
     rmeps : Booleans, minimize_rtns : {FALSE}]

InitExpand ==
    /\ variant = "expand_rtn"
    /\ distances = NoDistances
    /\ conf \in ExpandConfs
    /\ disk \in ExpandDisks
    /\ phase = "new"
    /\ cur_fst = NoneRtn
    /\ cur_node = NoStateId
    /\ bos_score = PyNone
    /\ cur_nodes = NullAddr
    /\ cur_history = NullAddr
    /\ sub_fsts = <<>>
    /\ heap = EmptyHeap
    /\ snap = NoSnap
    /\ out = Out("new", 0, 0, Ret("", PyNone, <<>>))
    /\ nconsumed = 0

\* initialize: the root automaton is read and the history is [GO].
ExpandInitializeAct ==
    /\ variant = "expand_rtn" /\ phase = "new"
    /\ LET r == RtnInitialize(disk)
           a == AssignNew(heap, <<>>)
           b == IF r.go THEN RtnAppend(a.heap, a.ref, GO_ID) ELSE a
           z == Compact(b.heap, b.ref, NullAddr)
       IN  /\ cur_fst' = r.fst
           /\ cur_history' = z.cur
           /\ heap' = z.heap
    /\ sub_fsts' = <<>>
    /\ out' = Out("initialize", 0, <<>>, Ret("", Num(0), <<>>))
    /\ phase' = "ready"
    /\ UNCHANGED <<distances, variant, conf, disk, cur_node, bos_score, cur_nodes,
                   snap, nconsumed>>

ExpandConsumeAct ==
    /\ variant = "expand_rtn" /\ phase = "ready" /\ nconsumed < MaxConsumes
    /\ \E word \in RtnSymbols :
         LET a == RtnAppend(heap, cur_history, word)
         IN  /\ heap' = a.heap
             /\ cur_history' = a.ref
             /\ out' = Out("consume", word, heap[cur_history], Ret("", PyNone, <<>>))
    /\ nconsumed' = nconsumed + 1
    /\ UNCHANGED <<distances, variant, conf, disk, phase, cur_fst, cur_node, bos_score,
                   cur_nodes, sub_fsts, snap>>

\* predict_next up to the head of the while loop: cur_posterior = {} and
\* updated = True.  out.arg counts the rounds, out.dist is cur_posterior.
ExpandBeginAct ==
    /\ variant = "expand_rtn" /\ phase = "ready" /\ ~cur_fst.isNone
    /\ phase' = "expanding"
    /\ out' = Out("predict_next", 0, heap[cur_history], Ret("", Num(0), <<>>))
    /\ UNCHANGED <<distances, variant, conf, disk, cur_fst, cur_node, bos_score,
                   cur_nodes, cur_history, sub_fsts, heap, snap, nconsumed>>

\* One round of the while loop; the round that leaves updated False is
\* followed by the end of expand_rtn.  out.num is len(label_fst_map).
ExpandPassAct ==
    /\ variant = "expand_rtn" /\ phase = "expanding"
    /\ \E p \in {ExpandPass(cur_fst, sub_fsts, out.dist, 0, disk.subs,
                            WeightFactor(conf.to_log), heap[cur_history])} :
          /\ cur_fst' = IF ~p.updated /\ p.exc = "" /\ conf.rmeps
                        THEN RmEpsilon(p.fst) ELSE p.fst
          /\ sub_fsts' = p.cache
          /\ phase' = IF p.updated THEN "expanding" ELSE "ready"
          /\ out' = Out("expand_rtn",
                        IF out.arg < MaxPasses THEN out.arg + 1 ELSE MaxPasses,
                        heap[cur_history], Ret(p.exc, Num(p.nmap), p.post))
    /\ UNCHANGED <<distances, variant, conf, disk, cur_node, bos_score, cur_nodes,
                   cur_history, heap, snap, nconsumed>>

NextExpand ==
    \/ ExpandInitializeAct
    \/ ExpandConsumeAct
    \/ ExpandBeginAct
    \/ ExpandPassAct

\* A call of expand_rtn runs its loop on: the round is taken whenever it
\* changes the state.  A round that leaves every variable as it is (the
\* automaton, the cache and the posterior unchanged, the count of rounds at
\* MaxPasses) is the loop running on without end.
SpecExpand == InitExpand /\ [][NextExpand]_vars /\ WF_vars(ExpandPassAct)

----------------------------------------------------------------------------
(* Properties                                                              *)

\* The labels and scores of the arcs leaving a state, read off the automaton.
LabelsAt(f, q) == {a.olabel : a \in Range(Arcs(f, q))}
FirstArc(f, q, l) ==
    LET as == Arcs(f, q)
    IN  as[SetMin({i \in DOMAIN as : as[i].olabel = l})]
\* The pairs <<i, j>> of a frontier member i and an arc j of its state labelled l,
\* and the score s + sign*weight of such a pair.
FrontierArcs(f, nodes, l) ==
    {<<i, j>> \in (DOMAIN nodes) \X (DOMAIN f.arcs) :
        f.arcs[j].src = nodes[i][2] /\ f.arcs[j].olabel = l}
FrontierScore(f, to_log, nodes, p) ==
    nodes[p[1]][1] + WeightFactor(to_log) * f.arcs[p[2]].weight

\* C1: for the deterministic and the nondeterministic predictor, predict_next
\* called right after set_state(s) returns what predict_next returned when the
\* decoder took s, whatever was consumed, predicted or restored in between.
C1_RoundTrip ==
    (variant \in {"fst", "nfst"} /\ out.op = "predict_next" /\ out.arg = 1)
        => SameOutcome(out, snap.d)

\* A nondeterministic predictor restored after a consume moved it to another
\* frontier, predicting a non-empty distribution.
C1_Witness ==
    /\ variant = "nfst" /\ out.op = "predict_next" /\ out.arg = 1
    /\ snap.moved /\ out.dist # <<>> /\ nconsumed = MaxConsumes

\* C4 (as claimed): once a consume from an active state found neither an arc
\* for the word nor an unknown arc, every later consume returns without
\* raising and leaves the predictor invalid, and predict_next returns {}.
C4_AbsorbingInvalid ==
    (variant = "fst" /\ ~cur_fst.isNone /\ out.pre = NoneNode)
        => /\ out.op = "predict_next" => (out.exc = "" /\ out.dist = <<>>)
           /\ out.op = "consume" => (out.exc = "" /\ cur_node = NoneNode)

\* C5 (as claimed): a nondeterministic consume of a word no frontier member
\* has an arc for does not raise and leaves the frontier empty.
C5_NoMatchConsume ==
    (variant = "nfst" /\ out.op = "consume"
     /\ FrontierArcs(cur_fst, out.pre, out.arg) = {})
        => (out.exc = "" /\ heap[cur_nodes] = <<>>)

\* sign*weight of the begin-marker arc the deterministic initialize traverses,
\* 0 when the start state has none.
BeginArcScore(f, to_log) ==
    IF GO_ID \in LabelsAt(f, f.start)
    THEN WeightFactor(to_log) * FirstArc(f, f.start, GO_ID).weight
    ELSE 0
UniqueLabels(f) ==
    \A i, j \in DOMAIN f.arcs :
        (f.arcs[i].src = f.arcs[j].src /\ f.arcs[i].olabel = f.arcs[j].olabel)
            => i = j
SpecExample == MkFst(0, <<Arc(0, 1, GO_ID, 0), Arc(1, 2, 5, 2)>>)

\* C7: deterministic predict_next in a valid active state q of an automaton
\* with at most one arc per label per state has one entry per arc label of q,
\* scored sign*weight, the end-marker entry carrying in addition the
\* begin-marker score exactly when skip_bos_weight is false; on the example
\* automaton with to_log and skip_bos_weight it is {5: -2} after initialize.
C7_FstScores ==
    (variant = "fst" /\ out.op = "predict_next" /\ out.pre >= 0
     /\ UniqueLabels(cur_fst))
        => /\ out.exc = ""
           /\ DKeys(out.dist) = LabelsAt(cur_fst, out.pre)
           /\ Len(out.dist) = Cardinality(LabelsAt(cur_fst, out.pre))
           /\ \A l \in LabelsAt(cur_fst, out.pre) :
                DGet(out.dist, l, 0) =
                    WeightFactor(conf.to_log) * FirstArc(cur_fst, out.pre, l).weight
                    + (IF l = EOS_ID /\ ~conf.skip_bos_weight
                       THEN BeginArcScore(cur_fst, conf.to_log) ELSE 0)
           /\ (cur_fst = SpecExample /\ conf.to_log /\ conf.skip_bos_weight
               /\ nconsumed = 0)
                => DMap(out.dist) = [l \in {5} |-> -2]

\* The end marker is predicted with a begin-marker score that is not 0 folded in.
C7_Witness ==
    /\ variant = "fst" /\ out.op = "predict_next" /\ out.pre >= 0
    /\ UniqueLabels(cur_fst) /\ ~conf.skip_bos_weight
    /\ DHas(out.dist, EOS_ID) /\ bos_score.v # 0
    /\ DGet(out.dist, EOS_ID, 0) # WeightFactor(conf.to_log)
                                     * FirstArc(cur_fst, out.pre, EOS_ID).weight

\* The state the deterministic consume of `word` from q must lead to.
FstTarget(f, q, word) ==
    IF word \in LabelsAt(f, q) THEN FirstArc(f, q, word).nextstate
    ELSE IF UNK_ID \in LabelsAt(f, q) THEN FirstArc(f, q, UNK_ID).nextstate
    ELSE NoneNode

\* C8: a deterministic consume(w) from a valid state q moves to the destination
\* of q's arc labelled w if there is one, wherever q's unknown arc is; to the
\* destination of q's unknown arc only if there is none; and makes the
\* predictor invalid if q has neither.  The same holds of the begin-marker
\* consume of initialize.
C8_FstConsumeTarget ==
    /\ (variant = "fst" /\ out.op = "consume" /\ out.pre >= 0)
          => cur_node = FstTarget(cur_fst, out.pre, out.arg)
    /\ (variant = "fst" /\ out.op = "initialize" /\ ~cur_fst.isNone
        /\ cur_fst.start >= 0)
          => cur_node = FstTarget(cur_fst, cur_fst.start, GO_ID)

\* The word's arc is taken although the unknown arc comes first in q's arcs.
C8_Witness ==
    /\ variant = "fst" /\ out.op = "consume" /\ out.pre >= 0
    /\ out.arg # UNK_ID
    /\ out.arg \in LabelsAt(cur_fst, out.pre)
    /\ UNK_ID \in LabelsAt(cur_fst, out.pre)
    /\ Arcs(cur_fst, out.pre)[1].olabel = UNK_ID
    /\ cur_node # FirstArc(cur_fst, out.pre, UNK_ID).nextstate

\* The best of a set of scores: the largest with to_log, the smallest without.
Best(to_log, S) == IF to_log THEN SetMax(S) ELSE SetMin(S)
NonEpsLabels(f, nodes) ==
    UNION {LabelsAt(f, nodes[i][2]) : i \in DOMAIN nodes} \ {EPS_ID}
LabelScores(f, to_log, nodes, l) ==
    {FrontierScore(f, to_log, nodes, p) : p \in FrontierArcs(f, nodes, l)}

\* C9 (as claimed): the keys of the nondeterministic predict_next are the
\* non-epsilon labels on arcs of frontier members and the score of a label is
\* the maximum of s + sign*weight over the members and their arcs so labelled.
C9_MaxPerLabel ==
    (variant = "nfst" /\ out.op = "predict_next" /\ out.exc = "")
        => /\ DKeys(out.dist) = NonEpsLabels(cur_fst, out.pre)
           /\ \A l \in DKeys(out.dist) :
                DGet(out.dist, l, 0) = SetMax(LabelScores(cur_fst, conf.to_log, out.pre, l))

\* C9 (amended): the score of a label is the maximum of those scores when
\* to_log is true and their minimum when it is false.
C9_BestPerLabel ==
    (variant = "nfst" /\ out.op = "predict_next" /\ out.exc = "")
        => /\ DKeys(out.dist) = NonEpsLabels(cur_fst, out.pre)
           /\ EPS_ID \notin DKeys(out.dist)
           /\ \A l \in DKeys(out.dist) :
                DGet(out.dist, l, 0) =
                    Best(conf.to_log, LabelScores(cur_fst, conf.to_log, out.pre, l))

\* Two frontier members offer the same label with different scores.
C9_Witness ==
    /\ variant = "nfst" /\ out.op = "predict_next" /\ Len(out.pre) >= 2
    /\ \E l \in DKeys(out.dist) :
         \E p1, p2 \in FrontierArcs(cur_fst, out.pre, l) :
            /\ p1[1] # p2[1]
            /\ FrontierScore(cur_fst, conf.to_log, out.pre, p1)
                 # FrontierScore(cur_fst, conf.to_log, out.pre, p2)

\* C2 (as claimed): the value of an RTN snapshot stays what it was when it was
\* taken, whatever is consumed afterwards, and set_state(s) restores it.
C2_SnapshotIndependent ==
    (variant = "rtn" /\ snap.has)
        => /\ heap[snap.ref] = snap.val
           /\ out.op = "set_state" => heap[cur_history] = snap.val

\* The automaton file of the sentence is missing or cannot be read.
FileMissing ==
    IF variant = "rtn" THEN RtnInitialize(disk).fst.isNone ELSE ~disk.readable

\* C3 (as claimed): with the automaton file missing or unreadable, initialize
\* does not raise and every later predict_next returns {}, for each predictor
\* and configuration.
C3_MissingFile ==
    (FileMissing /\ phase = "ready")
        => /\ out.op = "initialize" => out.exc = ""
           /\ out.op = "predict_next" => (out.exc = "" /\ out.dist = <<>>)

\* The states reached from S along epsilon arcs, and the states reached from
\* the start state along paths that spell `history`.
RECURSIVE EpsClosure(_, _)
EpsClosure(f, S) ==
    LET S2 == S \cup {a.nextstate : a \in {b \in Range(f.arcs) :
                                              b.src \in S /\ b.olabel = EPS_ID}}
    IN  IF S2 = S THEN S ELSE EpsClosure(f, S2)
RECURSIVE SpellStates(_, _, _)
SpellStates(f, S, history) ==
    IF history = <<>> THEN EpsClosure(f, S)
    ELSE SpellStates(f, {a.nextstate : a \in {b \in Range(f.arcs) :
                                                 b.src \in EpsClosure(f, S)
                                                 /\ b.olabel = Head(history)}},
                     Tail(history))
Spells(f, history) ==
    f.start # NoStateId /\ SpellStates(f, {f.start}, history) # {}

\* The histories that extend h by one or two consumed symbols.
Extensions(h) ==
    {h \o <<x>> : x \in RtnSymbols} \cup {h \o <<x, y>> : x, y \in RtnSymbols}

\* C6 (as claimed): an RTN consume does not raise and leaves the loaded
\* automaton as it is; and when predict_next returns {} for a history that no
\* path of the automaton spells, predict_next returns {} for every history
\* that extends it.
C6_DeadHistory ==
    [][variant = "rtn" =>
        /\ out'.op = "consume" => (out'.exc = "" /\ cur_fst' = cur_fst)
        /\ (out'.op = "predict_next" /\ out'.exc = "" /\ out'.dist = <<>>
            /\ ~cur_fst.isNone /\ ~Spells(cur_fst, out'.pre))
              => \A ext \in Extensions(out'.pre) :
                    \E r \in {RtnPredictNext(cur_fst', sub_fsts', conf, disk.subs, ext)} :
                        r.exc = "" /\ r.dist = <<>>]_vars

\* The destinations of the arcs labelled w that leave frontier members, and
\* the scores s + sign*weight of those arcs that enter q.
Dests(f, nodes, w) == {f.arcs[p[2]].nextstate : p \in FrontierArcs(f, nodes, w)}
DestScores(f, to_log, nodes, w, q) ==
    {FrontierScore(f, to_log, nodes, p) :
        p \in {r \in FrontierArcs(f, nodes, w) : f.arcs[r[2]].nextstate = q}}
DestMaxima(f, to_log, nodes, w) ==
    {SetMax(DestScores(f, to_log, nodes, w, q)) : q \in Dests(f, nodes, w)}

\* C10 (as claimed): the nondeterministic consume of a non-begin word with a
\* matching arc hands to the epsilon closure exactly the destinations of the
\* matching arcs, each scored its maximum over the arcs entering it minus the
\* maximum of those per-destination scores; so the best score handed over is
\* 0, and what is subtracted is the score predict_next gave the word.
C10_SubtractMax ==
    (variant = "nfst" /\ out.op = "consume" /\ out.arg # GO_ID
     /\ FrontierArcs(cur_fst, out.pre, out.arg) # {})
        => LET m == SetMax(DestMaxima(cur_fst, conf.to_log, out.pre, out.arg))
           IN  /\ out.exc = ""
               /\ DKeys(out.dist) = Dests(cur_fst, out.pre, out.arg)
               /\ Len(out.dist) = Cardinality(Dests(cur_fst, out.pre, out.arg))
               /\ \A q \in DKeys(out.dist) :
                    DGet(out.dist, q, 0) =
                        SetMax(DestScores(cur_fst, conf.to_log, out.pre, out.arg, q)) - m
               /\ SetMax(Range(DValues(out.dist))) = 0
               /\ out.num.v = m
               /\ m = DGet(NfstPredictNext(cur_fst, conf, out.pre).dist, out.arg, 0)

\* The best score of an epsilon-only path from a root to q, the empty path
\* included: root score plus the sum of sign*weight along the path.
BestEps(f, wf, roots, q) ==
    SetMax({roots[i][2] + EpsGain(f, wf, Cardinality(EpsStates))[roots[i][1]][q] :
               i \in {j \in DOMAIN roots :
                         EpsGain(f, wf, Cardinality(EpsStates))[roots[j][1]][q]
                             > NEG_INF}})

\* C11: _follow_eps applied to the {state: score} map of its own result
\* returns the same states with the same scores, each once.
C11_Idempotent ==
    (variant = "follow_eps" /\ phase = "reclosed")
        => /\ Range(out.dist) = Range(heap[cur_nodes])
           /\ Len(out.dist) = Len(heap[cur_nodes])

\* A result of two or more states is closed again, one member having an
\* epsilon arc into another member, on an automaton with an epsilon cycle.
C11_Witness ==
    /\ variant = "follow_eps" /\ phase = "reclosed"
    /\ Len(out.dist) >= 2
    /\ \E i \in DOMAIN out.dist :
         /\ out.dist[i][1] # 0
         /\ \E a \in Range(cur_fst.arcs) :
              a.olabel = EPS_ID /\ a.src = out.dist[i][2] /\ DHas(out.pre, a.nextstate)
    /\ \E a, b \in Range(cur_fst.arcs) :
         a.olabel = EPS_ID /\ b.olabel = EPS_ID
         /\ a.nextstate = b.src /\ b.nextstate = a.src

\* C19: on an automaton without a score-improving epsilon cycle, the score
\* _follow_eps reports for a returned state q is the maximum over the roots r
\* and the epsilon-only paths from r to q (the empty path when q is a root) of
\* the root score plus the sum of sign*weight along the path.
C19_BestScores ==
    (variant = "follow_eps" /\ out.op = "_follow_eps")
        => \A i \in DOMAIN out.dist :
              out.dist[i][1] =
                  BestEps(cur_fst, WeightFactor(conf.to_log), out.pre, out.dist[i][2])

\* A returned root whose reported score is better than its root score: a path
\* from another root beats the empty path.
C19_Witness ==
    /\ variant = "follow_eps" /\ out.op = "_follow_eps" /\ out.arg = 0
    /\ \E i \in DOMAIN out.dist :
         /\ DHas(out.pre, out.dist[i][2])
         /\ out.dist[i][1] > DGet(out.pre, out.dist[i][2], 0)

\* The state ids of a frontier.
NodeSet(state) == {state[i][2] : i \in DOMAIN state}

\* C12: the nondeterministic is_equal(a, b) is true exactly when the
\* frontiers a and b hold the same set of state ids, whatever the order of
\* either list and whatever scores are paired with the states.
C12_SameStateIds ==
    (variant = "is_equal" /\ out.op = "is_equal")
        => /\ out.exc = ""
           /\ (out.num.v = 1) <=> (NodeSet(out.pre[1]) = NodeSet(out.pre[2]))

\* Two frontiers of three states each, in different orders and with
\* different scores for the same state, are found equal.
C12_Witness ==
    /\ variant = "is_equal" /\ out.op = "is_equal" /\ out.num.v = 1
    /\ Len(out.pre[1]) = 3
    /\ NodeList(out.pre[1]) # NodeList(out.pre[2])
    /\ \E i, j \in DOMAIN out.pre[1] :
         /\ out.pre[1][i][2] = out.pre[2][j][2]
         /\ out.pre[1][i][1] # out.pre[2][j][1]

\* C13 (as claimed): once predict_next has returned for a history, a second
\* predict_next for the same history substitutes nothing (its first scan
\* collects no nonterminal arc), does not raise and returns the same
\* distribution.
C13_FixedPoint ==
    (variant = "rtn" /\ out.op = "predict_next" /\ out.exc = "" /\ ~cur_fst.isNone)
        => \E r \in {RtnPredictNext(cur_fst, sub_fsts, conf, disk.subs, out.pre)} :
              /\ r.exc = ""
              /\ r.passes = 0
              /\ DMap(r.dist) = DMap(out.dist)

\* The automaton without its nonterminal arcs.
StripNt(f) == [f EXCEPT !.arcs = SelectSeq(@, LAMBDA a : ~IsNtLabel(a.olabel))]

\* The scan of this predict_next reached a nonterminal whose file get_sub_fst
\* could not read.
UnreadableSubReached ==
    /\ variant = "rtn" /\ out.op = "predict_next" /\ ~conf.minimize_rtns
    /\ out.num.v >= 1
    /\ \E i \in DOMAIN disk.subs : ~disk.subs[i][2].valid

\* C14 (as claimed): when the scan reaches a nonterminal whose sub-automaton
\* file cannot be read, predict_next does not raise, the nonterminal
\* contributes nothing, and the ordinary arcs reachable for the history are
\* scored as they are on the root automaton without the nonterminal arc.
C14_UnreadableSub ==
    UnreadableSubReached
        => /\ out.exc = ""
           /\ \E r \in {RtnPredictNext(StripNt(disk.direct.fst), <<>>,
                                       [conf EXCEPT !.rmeps = FALSE], <<>>, out.pre)} :
                 DMap(out.dist) = DMap(r.dist)

\* The root automaton initialize must load, read off the directory: the start
\* id is the S entry of ntmap, 1 when ntmap is absent, cannot be read as a
\* table or has no S; the prefix is 1, the id padded to three digits, 000.
ClaimedStartId(nm) ==
    IF /\ nm.exists
       /\ \A i \in DOMAIN nm.lines : nm.lines[i].n = 2
       /\ \E i \in DOMAIN nm.lines : nm.lines[i].key = "S"
    THEN nm.lines[CHOOSE i \in DOMAIN nm.lines :
                     /\ nm.lines[i].key = "S"
                     /\ \A j \in DOMAIN nm.lines : nm.lines[j].key = "S" => j <= i].val
    ELSE <<1>>
ClaimedPrefix(nm) ==
    LET id == ClaimedStartId(nm)
    IN  <<1>> \o (CASE Len(id) = 1 -> <<0, 0>> \o id
                    [] Len(id) = 2 -> <<0>> \o id
                    [] OTHER -> id) \o <<0, 0, 0>>
ClaimedCandidates(dk) ==
    {i \in DOMAIN dk.dir : StartsWith(dk.dir[i].name, ClaimedPrefix(dk.ntmap))}
ClaimedRoot(dk) ==
    IF dk.direct.readable
    THEN IF dk.direct.valid THEN dk.direct.fst ELSE NoneRtn
    ELSE IF ClaimedCandidates(dk) = {} THEN NoneRtn
    ELSE LET last == CHOOSE i \in ClaimedCandidates(dk) :
                        \A j \in ClaimedCandidates(dk) :
                            j = i \/ LexLess(dk.dir[j].name, dk.dir[i].name)
         IN  IF dk.dir[last].valid THEN dk.dir[last].fst ELSE NoneRtn

C16_ConsumeReturn ==
    (variant = "fst" /\ out.op = "consume" /\ ~cur_fst.isNone)
        => /\ out.exc = ""
           /\ out.num =
                IF out.pre >= 0 /\ out.arg \in LabelsAt(cur_fst, out.pre)
                THEN Num(WeightFactor(conf.to_log)
                           * FirstArc(cur_fst, out.pre, out.arg).weight)
                ELSE Num(0)

\* C17: get_unk_probability of the deterministic predictor returns the entry
\* of the distribution for the unknown word when there is one and negative
\* infinity otherwise; the nondeterministic and the RTN predictor return
\* negative infinity for every distribution; none of them changes the state
\* of the predictor.
C17_UnkProbability ==
    [][out'.op = "get_unk_probability"
        => /\ out'.exc = ""
           /\ out'.num.v =
                IF variant = "fst" /\ UNK_ID \in DKeys(out'.pre)
                THEN out'.pre[CHOOSE i \in DOMAIN out'.pre : out'.pre[i][1] = UNK_ID][2]
                ELSE NEG_INF
           /\ UNCHANGED <<cur_fst, cur_node, bos_score, cur_nodes, cur_history,
                          sub_fsts, heap>>]_vars

\* The nondeterministic predictor is asked about a distribution that holds the
\* unknown word and answers negative infinity.
C17_Witness ==
    /\ variant = "nfst" /\ out.op = "get_unk_probability"
    /\ UNK_ID \in DKeys(out.pre) /\ Len(out.pre) = 3
    /\ out.num.v = NEG_INF

\* The states with an arc that is not an epsilon arc.
HasNonEps(f, q) == \E a \in Range(f.arcs) : a.src = q /\ a.olabel # EPS_ID

\* The destinations of the consume that built the current frontier: of the
\* arcs labelled with the word that leave the frontier before the call, which
\* for initialize is the closure of the start state and the begin marker.
ConsumeDests ==
    IF out.op = "consume" THEN Dests(cur_fst, out.pre, out.arg)
    ELSE IF cur_fst.isNone \/ out.exc # "" THEN {}
    ELSE {a.nextstate :
             a \in {b \in Range(cur_fst.arcs) :
                       /\ b.olabel = GO_ID
                       /\ b.src \in EpsClosure(cur_fst, {cur_fst.start})}}

\* C18: after initialize and after every consume of the nondeterministic
\* predictor no state id occurs twice in the frontier, every member has an
\* arc that is not an epsilon arc, and every state with such an arc that the
\* destinations of the consume reach by epsilon arcs only is a member.
C18_FrontierInvariant ==
    (variant = "nfst" /\ out.op \in {"initialize", "consume"})
        => LET fr == heap[cur_nodes]
           IN  /\ \A i, j \in DOMAIN fr : fr[i][2] = fr[j][2] => i = j
               /\ \A i \in DOMAIN fr : HasNonEps(cur_fst, fr[i][2])
               /\ out.exc = ""
                    => \A q \in EpsClosure(cur_fst, ConsumeDests) :
                          HasNonEps(cur_fst, q) => q \in NodeSet(fr)

\* A consume whose destination has epsilon arcs only: the destination is left
\* out of the frontier and a state behind it, no destination itself, is in.
C18_Witness ==
    /\ variant = "nfst" /\ out.op = "consume" /\ out.exc = ""
    /\ \E q \in ConsumeDests : ~HasNonEps(cur_fst, q)
    /\ \E q \in NodeSet(heap[cur_nodes]) : q \notin ConsumeDests

\* The consume handed to the epsilon closure the destinations of the matching
\* arcs, each scored its maximum over the arcs entering it minus `shift`.
HandedOver(shift) ==
    /\ DKeys(out.dist) = Dests(cur_fst, out.pre, out.arg)
    /\ \A q \in DKeys(out.dist) :
          DGet(out.dist, q, 0) =
              SetMax(DestScores(cur_fst, conf.to_log, out.pre, out.arg, q)) - shift

\* The best of the per-destination scores of the consume.
BestDest == Best(conf.to_log, DestMaxima(cur_fst, conf.to_log, out.pre, out.arg))

\* C20 (as claimed): a nondeterministic consume of the begin marker with
\* skip_bos_weight true subtracts nothing from the destination scores; every
\* other consume with a matching arc subtracts the best resulting score.
C20_NoSubtractWhenSkipping ==
    (variant = "nfst" /\ out.op = "consume"
     /\ FrontierArcs(cur_fst, out.pre, out.arg) # {})
        => /\ out.exc = ""
           /\ IF out.arg = GO_ID /\ conf.skip_bos_weight
              THEN HandedOver(0)
              ELSE HandedOver(BestDest)

\* C20 (amended): a nondeterministic consume of the begin marker with
\* skip_bos_weight false subtracts nothing from the destination scores; every
\* other consume with a matching arc (any other word, or the begin marker with
\* skip_bos_weight true) subtracts the best resulting score.
C20_NoSubtractWhenKeeping ==
    (variant = "nfst" /\ out.op = "consume"
     /\ FrontierArcs(cur_fst, out.pre, out.arg) # {})
        => /\ out.exc = ""
           /\ IF out.arg = GO_ID /\ ~conf.skip_bos_weight
              THEN HandedOver(0) /\ out.num.v = 0
              ELSE HandedOver(BestDest) /\ out.num.v = BestDest

\* The begin marker is consumed with skip_bos_weight false over arcs whose best
\* score is not 0, and the score stays in the frontier.
C20_Witness ==
    /\ variant = "nfst" /\ out.op = "consume" /\ out.exc = ""
    /\ out.arg = GO_ID /\ ~conf.skip_bos_weight
    /\ FrontierArcs(cur_fst, out.pre, out.arg) # {}
    /\ BestDest # 0
    /\ \E i \in DOMAIN heap[cur_nodes] : heap[cur_nodes][i][1] = BestDest

\* The states the roots reach along epsilon arcs when the epsilon arcs of a
\* state with a word arc are not followed.
RECURSIVE HaltingReach(_, _)
HaltingReach(f, S) ==
    LET S2 == S \cup {a.nextstate :
                         a \in {b \in Range(f.arcs) :
                                   /\ b.src \in S /\ b.olabel = EPS_ID
                                   /\ ~HasNonEps(f, b.src)}}
    IN  IF S2 = S THEN S ELSE HaltingReach(f, S2)

\* C21 (as claimed): _follow_eps does not follow the epsilon arcs of a state
\* that has an arc that is not an epsilon arc, so it returns no state that is
\* reachable from the roots only through the epsilon arcs of such a state.
C21_HaltsAtRealArcs ==
    (variant = "follow_eps" /\ out.op = "_follow_eps")
        => NodeSet(out.dist) \subseteq HaltingReach(cur_fst, DKeys(out.pre))

\* C21 (amended): a state with an arc that is not an epsilon arc joins the
\* result and its epsilon arcs are followed like those of any other state:
\* _follow_eps returns exactly the states with such an arc that the roots
\* reach along epsilon arcs, whatever arcs the states on the way have.
C21_FollowsThroughRealArcs ==
    (variant = "follow_eps" /\ out.op = "_follow_eps")
        => NodeSet(out.dist) =
              {q \in EpsClosure(cur_fst, DKeys(out.pre)) : HasNonEps(cur_fst, q)}

\* A root with a word arc and an epsilon arc is returned, and so is a state
\* that the roots reach only through that root's epsilon arc.
C21_Witness ==
    /\ variant = "follow_eps" /\ out.op = "_follow_eps" /\ out.arg = 0
    /\ \E i, j \in DOMAIN out.dist :
         /\ DHas(out.pre, out.dist[i][2])
         /\ HasNonEps(cur_fst, out.dist[i][2])
         /\ out.dist[j][2] \notin HaltingReach(cur_fst, DKeys(out.pre))
         /\ \E a \in Range(cur_fst.arcs) :
              /\ a.src = out.dist[i][2] /\ a.olabel = EPS_ID
              /\ out.dist[j][2] \in EpsClosure(cur_fst, {a.nextstate})

\* C22: in every scan of a predict_next of the RTN predictor, a node is gone
\* through at most once for each remaining part of the history: no
\* <<node, len(history)>> occurs twice among the calls of
\* add_to_label_fst_map_recursive that got past the visited_nodes test.
C22_OncePerSuffix ==
    [][(variant = "rtn" /\ out'.op = "predict_next")
        => \E r \in {RtnPredictNext(cur_fst, sub_fsts, conf, disk.subs, out'.pre)} :
              \A k \in DOMAIN r.scans :
                 \A i, j \in DOMAIN r.scans[k] :
                    r.scans[k][i] = r.scans[k][j] => i = j]_vars

\* The file of the nonterminal can be read.
SubReadable == \E i \in DOMAIN disk.subs :
                  /\ disk.subs[i][1] = NtLabel
                  /\ disk.subs[i][2].readable /\ disk.subs[i][2].valid

HeuristicReady ==
    ~cur_fst.isNone /\ distances.set /\ distances.d = ShortestDistance(cur_fst)

\* The shortest distances of the destinations of the arcs labelled l that
\* leave q.
ArcDistances(f, q, l) ==
    {ShortestDistance(f)[a.nextstate + 1] :
        a \in {b \in Range(f.arcs) : b.src = q /\ b.olabel = l}}

\* C24: after initialize_heuristic, estimate_future_cost of the deterministic
\* predictor returns, for an active state q (the state 0 included) with an
\* arc labelled with the last word of the hypothesis, the shortest distance of
\* that arc's destination, and 0 when q has no such arc or the predictor is
\* invalid.
C24_FstEstimate ==
    (variant = "fst" /\ out.op = "estimate_future_cost" /\ HeuristicReady)
        => /\ out.exc = ""
           /\ ~out.num.none
           /\ IF out.pre >= 0 /\ ArcDistances(cur_fst, out.pre, out.arg) # {}
              THEN out.num.v \in ArcDistances(cur_fst, out.pre, out.arg)
              ELSE out.num.v = 0

\* C25: after initialize_heuristic, estimate_future_cost of the
\* nondeterministic predictor returns, for every frontier, the least shortest
\* distance of the destinations of the arcs labelled with the last word of the
\* hypothesis that leave frontier members (for a member the first such arc),
\* 0 when no member has such an arc, and raises nothing.
C25_NfstEstimate ==
    (variant = "nfst" /\ out.op = "estimate_future_cost" /\ HeuristicReady)
        => LET members == {out.pre[i][2] : i \in DOMAIN out.pre}
               dists == {ShortestDistance(cur_fst)[FirstArc(cur_fst, q, out.arg).nextstate + 1] :
                            q \in {m \in members : out.arg \in LabelsAt(cur_fst, m)}}
           IN  /\ out.exc = ""
               /\ ~out.num.none
               /\ out.num.v = IF dists = {} THEN 0 ELSE SetMin(dists)

\* C26: once initialize has loaded the automaton of another sentence, the
\* distances initialize_heuristic computed on the automaton before are not
\* read: until initialize_heuristic runs again estimate_future_cost of the
\* deterministic predictor returns 0.
C26_DistancesInvalidated ==
    (variant = "fst" /\ out.op = "estimate_future_cost"
     /\ distances.set /\ distances.of # cur_fst)
        => out.exc = "" /\ out.num = Num(0)

\* C27: predict_next of the RTN predictor depends on the history alone: the
\* distribution it returns, on the automaton as earlier predict_next calls of
\* the session left it, is the one it returns for the same history on the
\* root automaton as initialize read it, not yet expanded.  The file of the
\* nonterminal is readable.
C27_HistoryAlone ==
    (variant = "rtn" /\ out.op = "predict_next" /\ out.exc = "" /\ SubReadable)
        => \E r \in {RtnPredictNext(RtnInitialize(disk).fst, <<>>, conf, disk.subs,
                                    out.pre)} :
              SameOutcome(r, out)

\* C28 (as claimed): every call of expand_rtn on a grammar without left
\* recursion ends after finitely many rounds of its scan-and-splice loop: the
\* last round collects no nonterminal arc and the call returns.  The call on
\* an automaton without states, whose first scan raises before it collects
\* anything, counts as ended.
C28_ExpansionTerminates ==
    (variant = "expand_rtn" /\ phase = "expanding")
        ~> (/\ phase = "ready" /\ out.op = "expand_rtn" /\ out.num = Num(0)
            /\ (out.exc = "" \/ cur_fst.start = NoStateId))

\* C29: on an automaton whose epsilon cycles all have a total sign*weight <= 0
\* every call of _follow_eps, whatever its roots, reaches an empty open set
\* and returns; a cycle of total weight zero does not keep it running.
C29_ClosureTerminates ==
    (variant = "follow_eps_loop" /\ phase = "following")
        ~> (variant = "follow_eps_loop" /\ phase = "closed"
            /\ heap[OpenNodes] = <<>>)

\* An epsilon arc reached from the roots closes a cycle of total weight zero.
OnZeroCycle(f, wf, reached) ==
    \E a \in Range(f.arcs) :
        /\ a.olabel = EPS_ID /\ DHas(reached, a.src)
        /\ EpsGain(f, wf, Cardinality(EpsStates))[a.nextstate][a.src] > NEG_INF
        /\ EpsGain(f, wf, Cardinality(EpsStates))[a.nextstate][a.src]
             + wf * a.weight = 0

\* A call that returned after its rounds went through a zero-weight cycle.
C29_Witness ==
    /\ variant = "follow_eps_loop" /\ phase = "closed"
    /\ OnZeroCycle(cur_fst, WeightFactor(conf.to_log), heap[Visited])

\* A sequence evaluated once, element by element.
Materialize(s) == s \o <<>>

\* EpsGain as a table: row s + 1, column t + 1.
GainTable(f, wf) ==
    Bind(EpsGain(f, wf, Cardinality(EpsStates)), LAMBDA G :
        Materialize([s \in 1 .. Cardinality(EpsStates) |->
                        Materialize([t \in 1 .. Cardinality(EpsStates) |->
                                        G[s - 1][t - 1]])]))

\* The best total sign*weight of a path from the start state that spells the
\* first k symbols of seq, epsilon arcs in between, and ends in state t with
\* the arc of the k-th symbol, at index t + 1; NEG_INF when there is none.
RECURSIVE BestArrival(_, _, _, _, _)
BestArrival(f, wf, seq, k, G) ==
    IF k = 0
    THEN Materialize([i \in 1 .. Cardinality(EpsStates) |->
                         IF i - 1 = f.start THEN 0 ELSE NEG_INF])
    ELSE Bind(BestArrival(f, wf, seq, k - 1, G), LAMBDA prev :
            Materialize([i \in 1 .. Cardinality(EpsStates) |->
                SetMax({NEG_INF} \cup
                       {prev[p[1] + 1] + G[p[1] + 1][p[2].src + 1] + wf * p[2].weight :
                           p \in {q \in EpsStates \X Range(f.arcs) :
                                     /\ prev[q[1] + 1] > NEG_INF
                                     /\ G[q[1] + 1][q[2].src + 1] > NEG_INF
                                     /\ q[2].olabel = seq[k]
                                     /\ q[2].nextstate = i - 1}})]))

\* The best total over the paths spelling seq.
Viterbi(f, wf, seq) ==
    SetMax(Range(BestArrival(f, wf, seq, Len(seq), GainTable(f, wf))))

\* C30: with to_log and skip_bos_weight set, after the decoder consumed
\* w1..wn, each of them taken from the distribution predict_next gave right
\* before, the sum of the scores of the wi equals the best total sign*weight
\* of a path spelling begin, w1..wn minus the best total of a path spelling
\* the begin marker alone (a path ends with the arc of its last symbol).
C30_ScoresTelescope ==
    (variant = "nfst_sum" /\ out.op = "consume" /\ out.exc = "")
        => /\ Viterbi(cur_fst, WeightFactor(conf.to_log), <<GO_ID>> \o out.pre) > NEG_INF
           /\ out.arg = Viterbi(cur_fst, WeightFactor(conf.to_log), <<GO_ID>> \o out.pre)
                          - Viterbi(cur_fst, WeightFactor(conf.to_log), <<GO_ID>>)

\* Two words consumed with a sum above zero: the best path of the two words
\* gains on an epsilon arc of negative weight behind a word, which no arc of
\* a word makes up for.
C30_Witness ==
    /\ variant = "nfst_sum" /\ out.op = "consume" /\ out.exc = ""
    /\ Len(out.pre) = 2 /\ out.arg > 0
    /\ heap[cur_nodes] # <<>>

\* C31: predict_next leaves the traversal state as it is: the active state of
\* the deterministic predictor, the frontier list of the nondeterministic
\* one (the object and its value, as get_state returns it) and the history
\* of the RTN predictor; no snapshot moves either.  In the two lattice
\* predictors nothing a later call reads changes, so predict_next called
\* again right away gives the same outcome.
C31_PredictNextReadOnly ==
    [][out'.op = "predict_next"
        => /\ snap' = snap
           /\ variant = "fst"
                => /\ cur_node' = cur_node /\ cur_fst' = cur_fst
                   /\ bos_score' = bos_score
                   /\ SameOutcome(FstPredictNext(cur_fst', conf', cur_node', bos_score'),
                                  out')
           /\ variant = "nfst"
                => /\ cur_nodes' = cur_nodes /\ heap' = heap /\ cur_fst' = cur_fst
                   /\ SameOutcome(NfstPredictNext(cur_fst', conf', heap'[cur_nodes']),
                                  out')
           /\ variant = "rtn"
                => /\ cur_history' = cur_history
                   /\ heap' = heap]_vars

\* predict_next called on a frontier of two states behind a consumed word,
\* with a distribution to return.
C31_Witness ==
    /\ variant = "nfst" /\ out.op = "predict_next" /\ out.exc = ""
    /\ nconsumed >= 1
    /\ Len(heap[cur_nodes]) >= 2
    /\ out.dist # <<>>

\* The pairs <<node, score>> reached from the pairs of S along at most n
\* epsilon arcs, the score being the sum of weight_factor * weight on the way.
RECURSIVE EpsPairs(_, _, _, _)
EpsPairs(f, wf, S, n) ==
    IF n = 0 THEN S
    ELSE EpsPairs(f, wf,
                  S \cup {<<x[2].nextstate, x[1][2] + wf * W2F(x[2].weight)>> :
                             x \in {y \in S \X Range(f.arcs) :
                                       y[2].src = y[1][1] /\ y[2].olabel = EPS_ID}},
                  n - 1)
\* The pairs reached from the pairs of S by one arc labelled l.
StepPairs(f, wf, S, l) ==
    {<<x[2].nextstate, x[1][2] + wf * W2F(x[2].weight)>> :
        x \in {y \in S \X Range(f.arcs) : y[2].src = y[1][1] /\ y[2].olabel = l}}
\* The pairs reached from S by the paths that spell h, epsilon arcs anywhere.
RECURSIVE SpelledPairs(_, _, _, _)
SpelledPairs(f, wf, S, h) ==
    IF h = <<>> THEN EpsPairs(f, wf, S, NumStates(f))
    ELSE SpelledPairs(f, wf,
                      StepPairs(f, wf, EpsPairs(f, wf, S, NumStates(f)), Head(h)),
                      Tail(h))
\* The accumulated scores of the paths from the start state that spell h and
\* end with an arc labelled l.
PathScores(f, wf, h, l) ==
    {p[2] : p \in StepPairs(f, wf, SpelledPairs(f, wf, {<<f.start, 0>>}, h), l)}

\* C32: every key of the distribution a predict_next of the RTN predictor
\* returns is the label of an arc leaving a node that a path spelling the
\* history reaches; it is an ordinary vocabulary symbol, not epsilon, not a
\* nonterminal label and not a replacement label 2000000000 + n, also where a
\* node is scanned more than once in the pass; and its score is the best (the
\* largest) accumulated score of the paths that spell the history and the label.
C32_OnlyVocabulary ==
    [][(variant = "rtn" /\ out'.op = "predict_next" /\ out'.exc = "")
        => \A i \in DOMAIN out'.dist :
              LET label == out'.dist[i][1]
                  scores == PathScores(cur_fst, WeightFactor(conf.to_log), out'.pre,
                                       label)
              IN  /\ label > EPS_ID /\ label < NtBase
                  /\ scores # {}
                  /\ out'.dist[i][2] = SetMax(scores)]_vars

\* A predict_next behind a consumed word returned a label that two paths
\* spelling the history reach with different scores; the automaton is the one
\* the call began with (no epsilon removal).
C32_Witness ==
    /\ variant = "rtn" /\ out.op = "predict_next" /\ out.exc = ""
    /\ Len(out.pre) >= 2 /\ ~conf.rmeps
    /\ \E i \in DOMAIN out.dist :
          Cardinality(PathScores(cur_fst, WeightFactor(conf.to_log), out.pre,
                                 out.dist[i][1])) >= 2

====
